---- MODULE Spec2Model ----
(***************************************************************************)
(* Status synchronisation engine of the Pueue WebUI v2 dashboard           *)
(* (src/v2/app/page.tsx): the poll cycle of load(), the snapshot digest    *)
(* statusDigest, and the per-task reconciliation of normalizeTasks.        *)
(*                                                                         *)
(* JavaScript values are tagged records: [t |-> "absent"] is undefined or  *)
(* a missing key, [t |-> "null"] is null, [t |-> "str", s |-> chars] a     *)
(* string, [t |-> "num", n |-> n] a number, [t |-> "obj", kv |-> entries]  *)
(* an object whose entries are in insertion order.  A string is a sequence *)
(* of one-character strings, so that joining, lower-casing and hashing are *)
(* computed character by character as the code computes them.             *)
(***************************************************************************)
EXTENDS Integers, Sequences, FiniteSets, TLC

VARIABLES
    mounted,          \* the Page component has run its mount effects
    isVisible,        \* useState(true), page.tsx:578
    loading,          \* useState(true), page.tsx:535
    loadInFlightRef,  \* useRef(false), page.tsx:577
    lastDigestRef,    \* useRef<string | null>(null), page.tsx:579
    data,             \* useState<ApiStatusResponse>({ ok: true }), page.tsx:534
    tasks,            \* the rows of useMemo(normalizeTasks), page.tsx:712
    taskCacheRef,     \* useRef<Map<string, TaskCacheEntry>>, page.tsx:580
    nextRef,          \* the next fresh TaskRow object (object identity)
    outstanding,      \* the /api/status requests sent and not yet settled
    issued,           \* the /api/status requests sent so far
    lastCall,         \* what the last call of load() did
    timer,            \* the interval timer of the polling effect, page.tsx:654 (0: none)
    lastCaller,       \* who made the last call of load(): the effect, the timer or a button
    lastSettle,       \* the response that settled last, and what load() did with it
    dg,               \* the digest scenario: two snapshots and their digests
    pendingActions,   \* useState<Set<string>>(new Set()), page.tsx:536
    selectedIds,      \* useState<Set<string>>(new Set()), page.tsx:541, in insertion order
    calls,            \* the POST /api/task/{id} requests sent and not yet settled
    batches,          \* the runBatchAction loops that have not finished
    nextCall,         \* the number the next request or batch gets
    lastOutcome,      \* the request that settled last, and how
    request,          \* the request the POST handler of /api/task/{id} is given
    reply,            \* the response the handler returned
    forwarded,        \* the requests the handler sent to the daemon backend
    search,           \* useState(""), page.tsx:537, as useDeferredValue hands it on
    statusFilter,     \* useState("all"), page.tsx:538
    groupFilters,     \* useState<Set<string>>(new Set()), page.tsx:539
    sortBy,           \* useState("id-asc"), page.tsx:540
    quickFilters,     \* useState<Set<string>>(new Set()), page.tsx:546
    renderMode,       \* useState<"auto" | "paginate">("auto"), page.tsx:574
    pageSize,         \* useState(200), page.tsx:575
    pageIndex,        \* useState(0), page.tsx:576
    logTaskId,        \* useState(""), page.tsx:542
    logText,          \* the text the logText memo takes from logData, page.tsx:1235
    useLocalTime,     \* useState(true), page.tsx:545
    parsedLogLines,   \* the parsedLogLines memo, page.tsx:1247
    logWindow,        \* the logWindow memo, page.tsx:1271
    pollMs,           \* useState(750), page.tsx:569
    pollInput,        \* useState("0.75"), page.tsx:570
    addCommand,       \* useState(""), page.tsx:554
    addError,         \* useState<string | null>(null), page.tsx:559
    creates,          \* the POST /api/task requests, and how far the handler is with each
    createForwarded,  \* the bodies the create handler sent to the daemon backend
    logData,          \* useState<ApiLogResponse | null>(null), page.tsx:544
    logRequests,      \* the /api/logs requests of loadLogs in the order sent, and their state
    logTimer,         \* the setTimeout of the log effect is pending, page.tsx:1091
    viewerTaskId,     \* taskId of LogsPage, useState(params.get("task") ?? "")
    viewerLogText,    \* the text the logText memo of LogsPage takes from its logData
    viewerLocalTime,  \* useLocalTime of LogsPage, useState(true)
    viewerLogLines    \* the parsedLogLines memo of LogsPage

vars == <<mounted, isVisible, loading, loadInFlightRef, lastDigestRef, data, tasks,
          taskCacheRef, nextRef, outstanding, issued, lastCall, lastCaller, timer, lastSettle, dg,
          pendingActions, selectedIds, calls, batches, nextCall, lastOutcome,
          request, reply, forwarded,
          search, statusFilter, groupFilters, sortBy, quickFilters, renderMode, pageSize,
          pageIndex, logTaskId, logText, useLocalTime, parsedLogLines, logWindow,
          pollMs, pollInput, addCommand, addError, creates, createForwarded,
          logData, logRequests, logTimer,
          viewerTaskId, viewerLogText, viewerLocalTime, viewerLogLines>>

pollVars == <<mounted, isVisible, loading, loadInFlightRef, lastDigestRef, data, tasks,
              taskCacheRef, nextRef, outstanding, issued, lastCall, lastCaller, timer, lastSettle>>

dispatcherVars == <<pendingActions, selectedIds, calls, batches, nextCall, lastOutcome>>

endpointVars == <<request, reply, forwarded>>

viewVars == <<search, statusFilter, groupFilters, sortBy, quickFilters, renderMode, pageSize,
              pageIndex>>

logVars == <<logTaskId, logText, useLocalTime, parsedLogLines, logWindow>>

settingsVars == <<pollMs, pollInput>>

\* the state of the forms of the page, which polling, actions and the table leave alone
createVars == <<addCommand, addError, creates, createForwarded>>

\* the log requests of the dashboard
logFetchVars == <<logData, logRequests, logTimer>>

\* the state of the standalone log viewer page
viewerVars == <<viewerTaskId, viewerLogText, viewerLocalTime, viewerLogLines>>

otherVars == <<logFetchVars, viewerVars>>

formVars == <<settingsVars, createVars, otherVars>>

\* const limit = 1200 of logWindow
LogLimit == 1200

\* no action has been dispatched
DispatcherInit ==
    /\ pendingActions = {}
    /\ selectedIds = <<>>
    /\ calls = {}
    /\ batches = {}
    /\ nextCall = 1
    /\ lastOutcome = [kind |-> "none"]

\* the endpoint has been given no request
EndpointInit ==
    /\ request = [t |-> "absent"]
    /\ reply = [t |-> "absent"]
    /\ forwarded = <<>>

\* the filters, the sort and the row rendering as the page is constructed
ViewInit ==
    /\ search = <<>>
    /\ statusFilter = <<"a", "l", "l">>
    /\ groupFilters = {}
    /\ sortBy = <<"i", "d", "-", "a", "s", "c">>
    /\ quickFilters = {}
    /\ renderMode = "auto"
    /\ pageSize = 200
    /\ pageIndex = 0

\* no log is shown
LogInit ==
    /\ logTaskId = <<>>
    /\ logText = <<>>
    /\ useLocalTime = TRUE
    /\ parsedLogLines = <<>>
    /\ logWindow = [lines |-> <<>>, offset |-> 0, total |-> 0, limit |-> LogLimit]

\* the refresh period as the page is constructed
SettingsInit ==
    /\ pollMs = 750
    /\ pollInput = <<"0", ".", "7", "5">>

\* the add-task form is empty and no task has been created
CreateInit ==
    /\ addCommand = <<>>
    /\ addError = [t |-> "null"]
    /\ creates = <<>>
    /\ createForwarded = <<>>

\* no log has been asked for, and the log viewer page shows no task
LogFetchInit ==
    /\ logData = [t |-> "null"]
    /\ logRequests = <<>>
    /\ logTimer = FALSE
    /\ viewerTaskId = <<>>
    /\ viewerLogText = <<>>
    /\ viewerLocalTime = TRUE
    /\ viewerLogLines = <<>>

FormInit ==
    /\ SettingsInit
    /\ CreateInit
    /\ LogFetchInit

---------------------------------------------------------------------------
(* Characters and strings                                                  *)

\* the printable ASCII characters from code 32 to 126; the ones a TLA+ string
\* cannot hold bare are spelled out
Printable ==
    <<" ", "!", "dquote", "#", "$", "%", "&", "'", "lparen", "rparen", "star", "+", ",", "-", ".", "/",
      "0", "1", "2", "3", "4", "5", "6", "7", "8", "9", ":", ";", "<", "=", ">", "?",
      "@", "A", "B", "C", "D", "E", "F", "G", "H", "I", "J", "K", "L", "M", "N", "O",
      "P", "Q", "R", "S", "T", "U", "V", "W", "X", "Y", "Z", "[", "backslash", "]", "^", "_",
      "backtick", "a", "b", "c", "d", "e", "f", "g", "h", "i", "j", "k", "l", "m", "n", "o",
      "p", "q", "r", "s", "t", "u", "v", "w", "x", "y", "z", "{", "|", "}", "~">>

\* the code of each printable character, computed once
CodeTable ==
    [c \in {Printable[i] : i \in 1..Len(Printable)} |->
        31 + (CHOOSE i \in 1..Len(Printable) : Printable[i] = c)]

\* String.prototype.charCodeAt for one character
charCodeAt(c) == CodeTable[c]

lowerOf(c, k) == IF k >= 65 /\ k <= 90 THEN Printable[k + 32 - 31] ELSE c

lowerChar(c) == lowerOf(c, charCodeAt(c))

\* String.prototype.toLowerCase
toLowerCase(s) == [i \in 1..Len(s) |-> lowerChar(s[i])]

\* String.prototype.includes
includes(s, sub) ==
    \E i \in 0..(Len(s) - Len(sub)) : SubSeq(s, i + 1, i + Len(sub)) = sub

isDigit(c) == c \in {"0", "1", "2", "3", "4", "5", "6", "7", "8", "9"}

digitChar(d) == Printable[d + 17]

RECURSIVE decimal(_)
\* String(n) for a natural number n
decimal(n) == IF n < 10 THEN <<digitChar(n)>> ELSE decimal(n \div 10) \o <<digitChar(n % 10)>>

RECURSIVE digitsValue(_)
digitsValue(s) ==
    IF s = <<>> THEN 0 ELSE 10 * digitsValue(SubSeq(s, 1, Len(s) - 1)) + (charCodeAt(s[Len(s)]) - 48)

sPipe == <<"|">>
sDefault == <<"d", "e", "f", "a", "u", "l", "t">>
sUnknown == <<"u", "n", "k", "n", "o", "w", "n">>
sQueued == <<"Q", "u", "e", "u", "e", "d">>
sRunning == <<"R", "u", "n", "n", "i", "n", "g">>
sPaused == <<"P", "a", "u", "s", "e", "d">>
sDone == <<"D", "o", "n", "e">>
sSuccess == <<"S", "u", "c", "c", "e", "s", "s">>
sFailed == <<"F", "a", "i", "l", "e", "d">>
sKilled == <<"K", "i", "l", "l", "e", "d">>
sFailedLower == <<"f", "a", "i", "l", "e", "d">>
sKilledLower == <<"k", "i", "l", "l", "e", "d">>
sPanicLower == <<"p", "a", "n", "i", "c">>
sQueuedLower == <<"q", "u", "e", "u", "e", "d">>
sPausedLower == <<"p", "a", "u", "s", "e", "d">>
sLockedLower == <<"l", "o", "c", "k", "e", "d">>
sStashedLower == <<"s", "t", "a", "s", "h", "e", "d">>
sStagedLower == <<"s", "t", "a", "g", "e", "d">>
sDoneLower == <<"d", "o", "n", "e">>
sSuccessLower == <<"s", "u", "c", "c", "e", "s", "s">>
sRunningLower == <<"r", "u", "n", "n", "i", "n", "g">>
sEmptyDigest == <<"e", "m", "p", "t", "y">>
sObjectObject == <<"[", "o", "b", "j", "e", "c", "t", " ", "O", "b", "j", "e", "c", "t", "]">>

---------------------------------------------------------------------------
(* JavaScript values                                                       *)

Absent == [t |-> "absent"]
Null == [t |-> "null"]
JStr(s) == [t |-> "str", s |-> s]
JNum(n) == [t |-> "num", n |-> n]
JArr(a) == [t |-> "arr", a |-> a]
JObj(kv) == [t |-> "obj", kv |-> kv]
KV(k, v) == [k |-> k, v |-> v]

isNullish(v) == v.t \in {"absent", "null"}
isString(v) == v.t = "str"
isNumber(v) == v.t = "num"
isObject(v) == v.t \in {"obj", "arr", "rec"}

\* ToBoolean
truthy(v) ==
    CASE v.t = "str" -> v.s # <<>>
      [] v.t = "num" -> v.n # 0
      [] v.t = "bool" -> v.b
      [] v.t \in {"absent", "null"} -> FALSE
      [] OTHER -> TRUE

\* v ?? d
orElse(v, d) == IF isNullish(v) THEN d ELSE v

RECURSIVE joinWith(_, _)
\* Array.prototype.join over an array of strings
joinWith(a, sep) ==
    IF a = <<>> THEN <<>>
    ELSE IF Len(a) = 1 THEN a[1]
    ELSE a[1] \o sep \o joinWith(Tail(a), sep)

\* `${v}` for a value that is not nullish
template(v) ==
    CASE v.t = "str" -> v.s
      [] v.t = "num" -> decimal(v.n)
      [] v.t = "arr" -> joinWith(v.a, <<",">>)
      [] OTHER -> sObjectObject

\* `${v ?? ""}`
templateOrEmpty(v) == IF isNullish(v) THEN <<>> ELSE template(v)

\* a canonical array index: such keys are enumerated first, in ascending numeric
\* order, whatever the insertion order (OrdinaryOwnPropertyKeys)
isIndexKey(k) ==
    /\ k # <<>>
    /\ \A i \in 1..Len(k) : isDigit(k[i])
    /\ (Len(k) = 1 \/ k[1] # "0")
    /\ Len(k) <= 9

RECURSIVE insertByIndex(_, _)
insertByIndex(sorted, k) ==
    IF sorted = <<>> THEN <<k>>
    ELSE IF digitsValue(k) < digitsValue(sorted[1]) THEN <<k>> \o sorted
    ELSE <<sorted[1]>> \o insertByIndex(Tail(sorted), k)

RECURSIVE sortIndexKeys(_)
\* the index keys in ascending order; keys that are in that order already stay as they are
sortIndexKeys(ks) ==
    IF \A i \in 1..(Len(ks) - 1) : digitsValue(ks[i]) <= digitsValue(ks[i + 1]) THEN ks
    ELSE insertByIndex(sortIndexKeys(SubSeq(ks, 1, Len(ks) - 1)), ks[Len(ks)])

\* Object.keys(o), also the order of Object.entries and of for-in
objectKeys(o) ==
    LET all == [i \in 1..Len(o.kv) |-> o.kv[i].k]
    IN  sortIndexKeys(SelectSeq(all, isIndexKey)) \o SelectSeq(all, LAMBDA k : ~isIndexKey(k))

hasKey(o, k) == o.t = "obj" /\ \E i \in 1..Len(o.kv) : o.kv[i].k = k

\* o?.[k]
get(o, k) ==
    IF hasKey(o, k) THEN o.kv[CHOOSE i \in 1..Len(o.kv) : o.kv[i].k = k].v ELSE Absent

\* o?.f for the fixed fields of a raw task, a group, a status detail or a response
field(o, f) == IF o.t = "rec" /\ f \in DOMAIN o THEN o[f] ELSE Absent

---------------------------------------------------------------------------
(* Raw records of the status response.  A raw task is                      *)
(* [t |-> "rec", status, group, command, path, label, priority]; a status  *)
(* is absent, a string or a single-key variant object whose value is the   *)
(* detail record [t |-> "rec", start, end, enqueued_at, result].           *)

RawTask(status, group, command, path, label, priority) ==
    [t |-> "rec", status |-> status, group |-> group, command |-> command,
     path |-> path, label |-> label, priority |-> priority]

Detail(start, end, enqueued_at, result) ==
    [t |-> "rec", start |-> start, end |-> end, enqueued_at |-> enqueued_at, result |-> result]

Variant(key, detail) == JObj(<<KV(key, detail)>>)

StatusOf(taskMap, groupMap) == [t |-> "rec", tasks |-> taskMap, groups |-> groupMap]

\* Object.keys(o)[0], undefined for an object without keys
firstKey(o) == IF o.kv = <<>> THEN Absent ELSE JStr(objectKeys(o)[1])

statusLabel(status) ==
    IF isString(status) THEN status.s
    ELSE IF truthy(status) /\ status.t = "obj" /\ status.kv # <<>> THEN objectKeys(status)[1]
    ELSE sUnknown

parseResult(value) ==
    IF isString(value) THEN value
    ELSE IF truthy(value) /\ value.t = "obj" /\ value.kv # <<>> THEN JStr(objectKeys(value)[1])
    ELSE Absent

\* the command of a raw task as a string
commandText(task) ==
    LET c == field(task, "command")
    IN  IF isString(c) THEN c.s
        ELSE IF c.t = "arr" THEN joinWith(c.a, <<" ">>)
        ELSE <<>>

\* (task.status[key] ?? {}) for key = Object.keys(task.status)[0]
infoAt(status, key) == IF key = Absent THEN Absent ELSE orElse(get(status, key.s), Absent)

statusInfo(status) == infoAt(status, firstKey(status))

\* the detail part of a signature or digest chunk
detailText(key, info) ==
    templateOrEmpty(key) \o sPipe \o templateOrEmpty(field(info, "start")) \o sPipe
     \o templateOrEmpty(field(info, "end")) \o sPipe
     \o templateOrEmpty(field(info, "enqueued_at")) \o sPipe
     \o templateOrEmpty(parseResult(field(info, "result")))

statusDetail(task) ==
    IF truthy(field(task, "status")) /\ field(task, "status").t = "obj"
    THEN detailText(firstKey(field(task, "status")), statusInfo(field(task, "status")))
    ELSE <<>>

taskSignature(id, task) ==
    LET status == statusLabel(field(task, "status"))
        group == IF isString(field(task, "group")) THEN field(task, "group").s ELSE sDefault
        command == commandText(task)
        path == IF isString(field(task, "path")) THEN field(task, "path").s ELSE <<>>
        label == IF isString(field(task, "label")) THEN field(task, "label").s ELSE <<>>
        priority == IF isNumber(field(task, "priority")) THEN decimal(field(task, "priority").n) ELSE <<>>
    IN  id \o sPipe \o status \o sPipe \o group \o sPipe \o command \o sPipe \o path \o sPipe
         \o label \o sPipe \o priority \o sPipe \o statusDetail(task)

Timing(state, start, end, enqueuedAt, result) ==
    [state |-> state, start |-> start, end |-> end, enqueuedAt |-> enqueuedAt, result |-> result]

\* the timing for the first key of the status object and the detail stored under it
timingOf(key, detail) ==
    IF key = Absent \/ key.s = <<>> THEN Timing("unknown", Absent, Absent, Absent, Absent)
    ELSE CASE key.s = sQueued ->
                Timing("queued", Absent, Absent, field(detail, "enqueued_at"), Absent)
           [] key.s = sRunning ->
                Timing("running", field(detail, "start"), Absent, field(detail, "enqueued_at"), Absent)
           [] key.s = sPaused ->
                Timing("paused", field(detail, "start"), Absent, field(detail, "enqueued_at"), Absent)
           [] key.s = sDone ->
                Timing("done", field(detail, "start"), field(detail, "end"),
                       field(detail, "enqueued_at"), parseResult(field(detail, "result")))
           [] OTHER -> Timing("unknown", Absent, Absent, Absent, Absent)

extractTiming(status) ==
    IF ~truthy(status) \/ status.t # "obj" THEN Timing("unknown", Absent, Absent, Absent, Absent)
    ELSE timingOf(firstKey(status), statusInfo(status))

anyIncluded(lower, words) == \E w \in words : includes(lower, w)

toneOf(lower) ==
    IF anyIncluded(lower, {sFailedLower, sKilledLower, sPanicLower}) THEN "danger"
    ELSE IF anyIncluded(lower, {sQueuedLower, sPausedLower, sLockedLower}) THEN "warn"
    ELSE IF anyIncluded(lower, {sStashedLower, sStagedLower}) THEN "muted"
    ELSE IF anyIncluded(lower, {sDoneLower, sSuccessLower}) THEN "success"
    ELSE ""

statusTone(status) == toneOf(toLowerCase(status))

\* a label that is the first key of the status whatever the result
statusLabelText_base(timing, baseStatus) == baseStatus

\* statusLabelText: the text shown as the row's status
statusLabelText(timing, baseStatus) ==
    IF timing.state = "done"
    THEN IF timing.result = JStr(sSuccess) THEN sDone
         ELSE IF truthy(timing.result) THEN template(timing.result)
         ELSE sFailed
    ELSE baseStatus

\* a bucket taken from the words of the label alone
filterKey_byText(timing, statusLower) ==
    IF includes(statusLower, sRunningLower) THEN "running"
    ELSE IF includes(statusLower, sQueuedLower) THEN "queued"
    ELSE IF includes(statusLower, sPausedLower) THEN "paused"
    ELSE IF anyIncluded(statusLower, {sFailedLower, sKilledLower, sPanicLower}) THEN "failed"
    ELSE IF anyIncluded(statusLower, {sDoneLower, sSuccessLower}) THEN "done"
    ELSE "unknown"

filterKey(timing, statusLower) ==
    IF timing.state # ""
    THEN IF timing.state = "done"
         THEN IF timing.result = JStr(sSuccess) THEN "done" ELSE "failed"
         ELSE timing.state
    ELSE IF includes(statusLower, sRunningLower) THEN "running"
    ELSE IF includes(statusLower, sQueuedLower) THEN "queued"
    ELSE IF includes(statusLower, sPausedLower) THEN "paused"
    ELSE IF anyIncluded(statusLower, {sFailedLower, sKilledLower, sPanicLower}) THEN "failed"
    ELSE IF anyIncluded(statusLower, {sDoneLower, sSuccessLower}) THEN "done"
    ELSE "unknown"

\* the object literal assigned to row
rowRecord(id, task, ref, timing, text) ==
    [ref |-> ref,
     id |-> id,
     status |-> text,
     statusTone |-> statusTone(text),
     command |-> commandText(task),
     filterKey |-> filterKey(timing, toLowerCase(text)),
     group |-> IF isString(field(task, "group")) THEN field(task, "group") ELSE Absent,
     path |-> field(task, "path"),
     label |-> IF isString(field(task, "label")) THEN field(task, "label") ELSE Absent,
     priority |-> IF isNumber(field(task, "priority")) THEN field(task, "priority") ELSE Absent,
     timing |-> timing]

rowFor(id, task, ref, timing, baseStatus) ==
    rowRecord(id, task, ref, timing, statusLabelText(timing, baseStatus))

\* the TaskRow built for a raw task; ref is the identity of the new object
buildRow(id, task, ref) ==
    rowFor(id, task, ref, extractTiming(field(task, "status")), statusLabel(field(task, "status")))

\* a reconciler that never takes a row from the previous cache
reusable_never(cache, id, signature) == FALSE

\* prev && prev.signature === signature
reusable(cache, id, signature) == id \in DOMAIN cache /\ cache[id].signature = signature

\* Number(id) of a row id; ids that are not digit strings give NaN
isNumericId(id) == id # <<>> /\ \A i \in 1..Len(id) : isDigit(id[i])

\* the comparator (a, b) => Number(a.id) - Number(b.id); a NaN result orders as 0
compareRows(a, b) ==
    IF isNumericId(a.id) /\ isNumericId(b.id) THEN digitsValue(a.id) - digitsValue(b.id) ELSE 0

RECURSIVE insertRow(_, _)
insertRow(sorted, row) ==
    IF sorted = <<>> THEN <<row>>
    ELSE IF compareRows(sorted[Len(sorted)], row) <= 0 THEN Append(sorted, row)
    ELSE Append(insertRow(SubSeq(sorted, 1, Len(sorted) - 1), row), sorted[Len(sorted)])

\* a reconciler that returns the rows in the order of the loop
sortRows_none(rows) == rows

RECURSIVE sortRows(_)
\* rows.sort(...): a stable sort; rows that are in order already stay as they are
sortRows(rows) ==
    IF \A i \in 1..(Len(rows) - 1) : compareRows(rows[i], rows[i + 1]) <= 0 THEN rows
    ELSE insertRow(sortRows(SubSeq(rows, 1, Len(rows) - 1)), rows[Len(rows)])

EmptyCache == <<>>

\* rows.push(prev.row); nextCache.set(id, prev)
reuseRow(id, cache, acc) ==
    [rows |-> Append(acc.rows, cache[id].row),
     cache |-> (id :> cache[id]) @@ acc.cache,
     nextRef |-> acc.nextRef]

\* nextCache.set(id, { signature, row }); rows.push(row)
pushRow(id, signature, row, acc) ==
    [rows |-> Append(acc.rows, row),
     cache |-> (id :> [signature |-> signature, row |-> row]) @@ acc.cache,
     nextRef |-> acc.nextRef + 1]

reconcileWith(id, task, cache, acc, signature) ==
    IF reusable(cache, id, signature)
    THEN reuseRow(id, cache, acc)
    ELSE pushRow(id, signature, buildRow(id, task, acc.nextRef), acc)

\* one iteration of the loop; acc is [rows, cache, nextRef]
reconcileTask(id, task, cache, acc) == reconcileWith(id, task, cache, acc, taskSignature(id, task))

RECURSIVE normalizeLoop_seeded(_, _, _, _)
\* a loop whose new cache also keeps the entries of the previous cache
normalizeLoop_seeded(keys, taskMap, cache, acc) ==
    IF keys = <<>> THEN [acc EXCEPT !.cache = acc.cache @@ cache]
    ELSE normalizeLoop_seeded(Tail(keys), taskMap, cache,
                              reconcileTask(Head(keys), get(taskMap, Head(keys)), cache, acc))

RECURSIVE normalizeLoop(_, _, _, _)
\* the for loop over Object.entries(tasks): the first half of the entries, then the
\* second half from where the first half has left the rows and the cache
normalizeLoop(keys, taskMap, cache, acc) ==
    IF keys = <<>> THEN acc
    ELSE IF Len(keys) = 1 THEN reconcileTask(keys[1], get(taskMap, keys[1]), cache, acc)
    ELSE CHOOSE out \in {normalizeLoop(SubSeq(keys, Len(keys) \div 2 + 1, Len(keys)), taskMap, cache, half) :
                            half \in {normalizeLoop(SubSeq(keys, 1, Len(keys) \div 2), taskMap, cache, acc)}} : TRUE

\* rows.sort(...) and the return value
sortedResult(out) == [rows |-> sortRows(out.rows), cache |-> out.cache, nextRef |-> out.nextRef]

\* normalizeTasks(status, cache); ref is the first fresh object identity, and the
\* result also says which identity is fresh next
\* a normalizeTasks that hands the previous cache back when there is no status
cacheWithout_kept(cache) == cache

\* return { rows: [], cache: new Map() }
cacheWithout(cache) == EmptyCache

normalizeTasks(status, cache, ref) ==
    IF ~truthy(status) \/ status.t # "rec" \/ ~truthy(field(status, "tasks"))
       \/ field(status, "tasks").t # "obj"
    THEN [rows |-> <<>>, cache |-> cacheWithout(cache), nextRef |-> ref]
    ELSE sortedResult(normalizeLoop(objectKeys(field(status, "tasks")), field(status, "tasks"), cache,
                                    [rows |-> <<>>, cache |-> EmptyCache, nextRef |-> ref]))

---------------------------------------------------------------------------
(* statusDigest.  The hash is a JavaScript number kept in int32 range by   *)
(* the ^ operator; it is modelled modulo 2^32 as two 16-bit halves.        *)

\* bit i of a ^ b, in place
xorBit(a, b, p) == (((a \div p) + (b \div p)) % 2) * p

\* a ^ b for 16-bit a and b
bitXor(a, b) ==
    xorBit(a, b, 1) + xorBit(a, b, 2) + xorBit(a, b, 4) + xorBit(a, b, 8)
    + xorBit(a, b, 16) + xorBit(a, b, 32) + xorBit(a, b, 64) + xorBit(a, b, 128)
    + xorBit(a, b, 256) + xorBit(a, b, 512) + xorBit(a, b, 1024) + xorBit(a, b, 2048)
    + xorBit(a, b, 4096) + xorBit(a, b, 8192) + xorBit(a, b, 16384) + xorBit(a, b, 32768)

Word(hi, lo) == [hi |-> hi, lo |-> lo]

\* the initial value of hash: 5381
hashSeed == Word(0, 5381)

\* (hash * 33) ^ code, modulo 2^32
hashStep(hash, code) ==
    LET low == hash.lo * 33
        high == hash.hi * 33 + (low \div 65536)
    IN  Word(bitXor(high % 65536, code \div 65536), bitXor(low % 65536, code % 65536))

RECURSIVE hashChunk(_, _)
\* for (let i = 0; i < chunk.length; i += 1) hash = (hash * 33) ^ chunk.charCodeAt(i)
\* The characters are taken in order, the first half and then the second half.  The
\* test hash.lo < 0 never holds: it makes TLC evaluate the running hash before the
\* next characters are folded in, so that the fold does not nest one unevaluated
\* step per character.
hashChunk(hash, chunk) ==
    IF hash.lo < 0 \/ chunk = <<>> THEN hash
    ELSE IF Len(chunk) = 1 THEN hashStep(hash, charCodeAt(chunk[1]))
    ELSE hashChunk(hashChunk(hash, SubSeq(chunk, 1, Len(chunk) \div 2)),
                   SubSeq(chunk, (Len(chunk) \div 2) + 1, Len(chunk)))

RECURSIVE decimalWord(_)
\* `${hash >>> 0}`
decimalWord(w) ==
    IF w.hi = 0 THEN decimal(w.lo)
    ELSE LET mid == (w.hi % 10) * 65536 + w.lo
         IN  decimalWord(Word(w.hi \div 10, mid \div 10)) \o <<digitChar(mid % 10)>>

\* the chunk hashed for one task
taskChunk(id, task) ==
    LET state == statusLabel(field(task, "status"))
        group == template(orElse(field(task, "group"), JStr(sDefault)))
        command == commandText(task)
        path == templateOrEmpty(field(task, "path"))
        label == templateOrEmpty(field(task, "label"))
        priority == templateOrEmpty(field(task, "priority"))
    IN  id \o sPipe \o state \o sPipe \o group \o sPipe \o label \o sPipe \o priority \o sPipe
         \o command \o sPipe \o path \o sPipe \o statusDetail(task)

\* the chunk hashed for one group
groupChunk(name, g) ==
    name \o sPipe \o templateOrEmpty(field(g, "parallel_tasks")) \o sPipe
     \o templateOrEmpty(field(g, "status"))

RECURSIVE hashTasks(_, _, _)
hashTasks(hash, keys, taskMap) ==
    IF keys = <<>> THEN hash
    ELSE hashTasks(hashChunk(hash, taskChunk(Head(keys), get(taskMap, Head(keys)))), Tail(keys), taskMap)

RECURSIVE hashGroups(_, _, _)
hashGroups(hash, keys, groupMap) ==
    IF keys = <<>> THEN hash
    ELSE hashGroups(hashChunk(hash, groupChunk(Head(keys), get(groupMap, Head(keys)))), Tail(keys), groupMap)

EmptyObject == JObj(<<>>)

statusDigest(status) ==
    IF ~truthy(status) \/ status.t # "rec" THEN sEmptyDigest
    ELSE LET taskMap == orElse(field(status, "tasks"), EmptyObject)
             groupMap == orElse(field(status, "groups"), EmptyObject)
             afterTasks == hashTasks(hashSeed, objectKeys(taskMap), taskMap)
             hash == hashGroups(afterTasks, objectKeys(groupMap), groupMap)
         IN  decimalWord(hash) \o <<":">> \o decimal(Len(taskMap.kv))

---------------------------------------------------------------------------
(* The status response and the poll cycle of load()                        *)

JBool(b) == [t |-> "bool", b |-> b]

Response(ok, status, stats, digest, cached, error) ==
    [t |-> "rec", ok |-> ok, status |-> status, stats |-> stats, digest |-> digest,
     cached |-> cached, error |-> error]

sError == <<"e", "r", "r">>

\* useState<ApiStatusResponse>({ ok: true })
InitialData == [serial |-> 0, json |-> Response(JBool(TRUE), Absent, Absent, Absent, Absent, Absent)]

\* { ok: false, error: ... } built by the catch block
CaughtData == Response(JBool(FALSE), Absent, Absent, Absent, Absent, JStr(sError))

Group(parallel_tasks, status) == [t |-> "rec", parallel_tasks |-> parallel_tasks, status |-> status]

\* the dependency [data.status] of the tasks memo: a status object is a new object in
\* every response, undefined is the same value every time
statusDep(d) == IF field(d.json, "status") = Absent THEN Absent ELSE JNum(d.serial)

\* load() without its guard: every call sends a request
load_unguarded == FALSE

\* if (loadInFlightRef.current) return;
load_blocked == loadInFlightRef

\* setData(d) and the render that follows: the tasks memo runs again when data.status
\* is another value, and stores the cache it returns
rerender(out) ==
    /\ tasks' = out.rows
    /\ taskCacheRef' = out.cache
    /\ nextRef' = out.nextRef

setData(d) ==
    /\ data' = d
    /\ IF statusDep(d) = statusDep(data)
       THEN UNCHANGED <<tasks, taskCacheRef, nextRef>>
       ELSE rerender(normalizeTasks(field(d.json, "status"), taskCacheRef, nextRef))

NoSettle == [kind |-> "none", json |-> Absent, propagated |-> FALSE, computed |-> FALSE]
NoDigestScenario == [a |-> Absent, b |-> Absent, da |-> Absent, db |-> Absent]

\* the requests the model lets the client send
MaxPolls == 3

\* the snapshots the daemon reports in the poll model
PollTaskRunning ==
    RawTask(Variant(sRunning, Detail(JStr(<<"t", "1">>), Absent, Absent, Absent)),
            Absent, JStr(<<"a">>), Absent, Absent, Absent)
PollTaskDone ==
    RawTask(Variant(sDone, Detail(JStr(<<"t", "1">>), JStr(<<"t", "2">>), Absent, JStr(sSuccess))),
            Absent, JStr(<<"a">>), Absent, Absent, Absent)
PollGroups == JObj(<<KV(sDefault, Group(JNum(1), JStr(sRunning)))>>)
PollStatuses ==
    {StatusOf(JObj(<<KV(<<"0">>, PollTaskRunning)>>), PollGroups),
     StatusOf(JObj(<<KV(<<"0">>, PollTaskDone)>>), PollGroups)}

\* statusDigest over the snapshots of the poll model, computed once
PollDigestTable == [st \in PollStatuses |-> statusDigest(st)]

\* statusDigest(json.status) as load() calls it
digestIn(table, status) == IF status \in DOMAIN table THEN table[status] ELSE statusDigest(status)

clientDigest(status) == digestIn(PollDigestTable, status)

\* stats.groups with the aggregates of the default group
StatsOf(running) ==
    [t |-> "rec",
     groups |-> JObj(<<KV(sDefault, [t |-> "rec", total |-> JNum(1), running |-> JNum(running)])>>)]
PollStats == {StatsOf(0), StatsOf(1)}
PollDigests == {Absent, JStr(<<"d", "1">>), JStr(<<"d", "2">>)}
PollCached == {Absent, JBool(TRUE)}

\* the else branch for a response without digest, once statusDigest has returned
compareDigest(nextDigest, last) ==
    IF nextDigest = last
    THEN [setData |-> FALSE, digest |-> last, computed |-> TRUE]
    ELSE [setData |-> TRUE, digest |-> nextDigest, computed |-> TRUE]

\* load() without the equal-digest returns: every successful response is propagated
loadTry_alwaysPropagates(json, last) ==
    IF truthy(field(json, "ok"))
    THEN IF truthy(field(json, "digest"))
         THEN [setData |-> TRUE, digest |-> field(json, "digest"), computed |-> FALSE]
         ELSE [setData |-> TRUE, digest |-> JStr(clientDigest(field(json, "status"))), computed |-> TRUE]
    ELSE [setData |-> TRUE, digest |-> Null, computed |-> FALSE]

\* load() whose cached return does not ask for a stored digest
loadTry_cachedAlone(json, last) ==
    IF truthy(field(json, "ok"))
    THEN IF truthy(field(json, "digest")) /\ field(json, "digest") = last
         THEN [setData |-> FALSE, digest |-> last, computed |-> FALSE]
         ELSE IF truthy(field(json, "cached"))
         THEN [setData |-> FALSE, digest |-> last, computed |-> FALSE]
         ELSE IF truthy(field(json, "digest"))
         THEN [setData |-> TRUE, digest |-> field(json, "digest"), computed |-> FALSE]
         ELSE compareDigest(JStr(clientDigest(field(json, "status"))), last)
    ELSE [setData |-> TRUE, digest |-> Null, computed |-> FALSE]

\* load() that goes by its own statusDigest whether or not the server sent a digest
loadTry_clientDigestOnly(json, last) ==
    IF truthy(field(json, "ok"))
    THEN compareDigest(JStr(clientDigest(field(json, "status"))), last)
    ELSE [setData |-> TRUE, digest |-> Null, computed |-> FALSE]

\* the row groupStats builds from one entry of stats.groups
serverGroupEntry(group, entry) ==
    [group |-> group,
     total |-> orElse(field(entry, "total"), JNum(0)),
     running |-> orElse(field(entry, "running"), JNum(0)),
     queued |-> orElse(field(entry, "queued"), JNum(0)),
     paused |-> orElse(field(entry, "paused"), JNum(0)),
     done |-> orElse(field(entry, "done"), JNum(0)),
     success |-> orElse(field(entry, "success"), JNum(0)),
     failed |-> orElse(field(entry, "failed"), JNum(0))]

entriesOf(groups, keys) == [i \in 1..Len(keys) |-> serverGroupEntry(keys[i], get(groups, keys[i]))]

\* the rows groupStats builds from stats.groups, the aggregates the server supplies
serverGroupEntries(statsFromServer) ==
    IF truthy(statsFromServer) /\ isObject(statsFromServer) /\ "groups" \in DOMAIN statsFromServer
    THEN entriesOf(statsFromServer.groups, objectKeys(statsFromServer.groups))
    ELSE <<>>

\* the body of the try block once the response is parsed: whether setData(json) is
\* reached, the value of lastDigestRef afterwards, and whether statusDigest was called
loadTry(json, last) ==
    IF truthy(field(json, "ok"))
    THEN IF truthy(field(json, "digest")) /\ field(json, "digest") = last
         THEN [setData |-> FALSE, digest |-> last, computed |-> FALSE]
         ELSE IF truthy(field(json, "cached")) /\ truthy(last)
         THEN [setData |-> FALSE, digest |-> last, computed |-> FALSE]
         ELSE IF truthy(field(json, "digest"))
         THEN [setData |-> TRUE, digest |-> field(json, "digest"), computed |-> FALSE]
         ELSE compareDigest(JStr(clientDigest(field(json, "status"))), last)
    ELSE [setData |-> TRUE, digest |-> Null, computed |-> FALSE]

\* what a request can settle with: a parsed response, or fetch()/res.json() throwing
PollOutcomes ==
    {[kind |-> "throw", json |-> Absent]}
    \cup {[kind |-> "json", json |-> Response(JBool(FALSE), Absent, Absent, Absent, Absent, JStr(sError))]}
    \cup {[kind |-> "json", json |-> Response(JBool(TRUE), st, stats, dig, c, Absent)] :
            st \in PollStatuses, stats \in PollStats, dig \in PollDigests, c \in PollCached}

\* load() up to its await: a call while a poll is outstanding returns at once
load ==
    IF load_blocked
    THEN /\ lastCall' = "dropped"
         /\ UNCHANGED <<loadInFlightRef, outstanding, issued>>
    ELSE /\ issued < MaxPolls
         /\ loadInFlightRef' = TRUE
         /\ outstanding' = outstanding + 1
         /\ issued' = issued + 1
         /\ lastCall' = "issued"

\* guardedLoad() of the polling effect, for the value of isVisible it closed over
\* a guardedLoad() that does not look at isVisible
guardedLoad_always(visible, by) == load /\ lastCaller' = by

guardedLoad(visible, by) ==
    IF ~visible
    THEN UNCHANGED <<loadInFlightRef, outstanding, issued, lastCall, lastCaller>>
    ELSE load /\ lastCaller' = by

\* a polling effect whose timer outlives the runs of the effect
restartTimer_kept(current) == IF current = 0 THEN 1 ELSE current

\* clearInterval(timer) of the cleanup, if the effect has run before, and
\* setInterval(guardedLoad, pollMs): the handle of another timer (two handles are
\* told apart)
restartTimer(current) == IF current = 1 THEN 2 ELSE 1

\* the polling effect, run for the first time or after load, pollMs or isVisible has
\* changed, visible being the value of isVisible it closes over
pollingEffect(visible) ==
    /\ guardedLoad(visible, "effect")
    /\ timer' = restartTimer(timer)

pollerRest == <<lastDigestRef, data, tasks, taskCacheRef, nextRef, lastSettle, dg,
                dispatcherVars, endpointVars, viewVars, logVars, formVars>>

\* the first render and its effects: the polling effect calls guardedLoad() and
\* starts the interval timer
Mount ==
    /\ ~mounted
    /\ mounted' = TRUE
    /\ pollingEffect(isVisible)
    /\ UNCHANGED <<isVisible, loading>>
    /\ UNCHANGED pollerRest

\* the interval timer fires
TimerTick ==
    /\ mounted
    /\ guardedLoad(isVisible, "timer")
    /\ UNCHANGED <<mounted, isVisible, loading, timer>>
    /\ UNCHANGED pollerRest

\* the Retry button of the offline banner
RetryClick ==
    /\ mounted
    /\ ~truthy(field(data.json, "ok"))
    /\ load
    /\ lastCaller' = "retry"
    /\ UNCHANGED <<mounted, isVisible, loading, timer>>
    /\ UNCHANGED pollerRest

\* await load() after a task or a group was added or a group removed
RefreshAfterChange ==
    /\ mounted
    /\ load
    /\ lastCaller' = "refresh"
    /\ UNCHANGED <<mounted, isVisible, loading, timer>>
    /\ UNCHANGED pollerRest

\* visibilitychange: setIsVisible(!document.hidden); the polling effect depends on
\* isVisible, so it is cleaned up and run again, which calls guardedLoad()
VisibilityChange ==
    /\ mounted
    /\ isVisible' = ~isVisible
    /\ pollingEffect(~isVisible)
    /\ UNCHANGED <<mounted, loading>>
    /\ UNCHANGED pollerRest

\* the effects of the try block on a parsed response, out being what loadTry says
afterTry(json, out) ==
    /\ lastDigestRef' = out.digest
    /\ lastSettle' = [kind |-> "json", json |-> json, propagated |-> out.setData,
                      computed |-> out.computed]
    /\ IF out.setData
       THEN setData([serial |-> issued - outstanding + 1, json |-> json])
       ELSE UNCHANGED <<data, tasks, taskCacheRef, nextRef>>

\* a load() that resets the guard at the end of its try block, not in a finally block
heldAfter_tryOnly(o) == o.kind = "throw"

\* the guard after load() has run to its end: finally { loadInFlightRef.current = false }
heldAfter(o) == FALSE

\* the request settles and load() runs from its await to its end
Settle(o) ==
    /\ outstanding > 0
    /\ outstanding' = outstanding - 1
    /\ loadInFlightRef' = heldAfter(o)
    /\ loading' = FALSE
    /\ IF o.kind = "throw"
       THEN /\ setData([serial |-> issued - outstanding + 1, json |-> CaughtData])
            /\ lastSettle' = [kind |-> "throw", json |-> Absent, propagated |-> TRUE, computed |-> FALSE]
            /\ UNCHANGED lastDigestRef
       ELSE afterTry(o.json, loadTry(o.json, lastDigestRef))
    /\ UNCHANGED <<mounted, isVisible, issued, lastCall, lastCaller, timer, dg, dispatcherVars, endpointVars, viewVars, logVars, formVars>>

Init ==
    /\ mounted = FALSE
    /\ isVisible = TRUE
    /\ loading = TRUE
    /\ loadInFlightRef = FALSE
    /\ lastDigestRef = Null
    /\ data = InitialData
    /\ tasks = <<>>
    /\ taskCacheRef = EmptyCache
    /\ nextRef = 1
    /\ outstanding = 0
    /\ issued = 0
    /\ lastCall = "none"
    /\ lastCaller = "none"
    /\ timer = 0
    /\ lastSettle = NoSettle
    /\ dg = NoDigestScenario
    /\ DispatcherInit
    /\ EndpointInit
    /\ ViewInit
    /\ LogInit
    /\ FormInit

Next ==
    \/ Mount
    \/ TimerTick
    \/ RetryClick
    \/ RefreshAfterChange
    \/ VisibilityChange
    \/ \E o \in PollOutcomes : Settle(o)

Spec == Init /\ [][Next]_vars

---------------------------------------------------------------------------
(* Reconciliation on its own: snapshots are handed to setData one after    *)
(* the other, as load() does when it propagates a response.                *)

\* the propagations the reconciliation model makes
MaxReconciles == 2

ReconcileDetail == Detail(JStr(<<"t", "1">>), JStr(<<"t", "2">>), Absent, JStr(sSuccess))

\* the records the daemon may report for task 1: the command, the path and the
\* lifecycle state vary
ReconcileTasksOne ==
    {RawTask(Variant(key, ReconcileDetail), Absent, JStr(command), path, Absent, Absent) :
        key \in {sQueued, sDone}, command \in {<<"a">>, <<"a", "|">>},
        path \in {Absent, JStr(<<"|">>)}}

\* the records the daemon may report for task 2
ReconcileTasksTwo ==
    {RawTask(Variant(sRunning, ReconcileDetail), JStr(<<"g">>), JStr(<<"b">>), Absent, Absent, priority) :
        priority \in {Absent, JNum(1)}}

\* a record reported under an id that is numeric but not a canonical index, so that
\* the snapshot enumerates it after the ids that are
ReconcileTaskZero ==
    RawTask(Variant(sQueued, ReconcileDetail), Absent, JStr(<<"c">>), Absent, Absent, Absent)

ReconcileTaskMaps ==
    {JObj(<<>>)}
    \cup {JObj(<<KV(<<"0", "0">>, ReconcileTaskZero)>>)}
    \cup {JObj(<<KV(<<"0", "0">>, ReconcileTaskZero), KV(<<"1">>, one)>>) : one \in ReconcileTasksOne}
    \cup {JObj(<<KV(<<"1">>, one)>>) : one \in ReconcileTasksOne}
    \cup {JObj(<<KV(<<"2">>, two)>>) : two \in ReconcileTasksTwo}
    \cup {JObj(<<KV(<<"2">>, two), KV(<<"1">>, one)>>) : one \in ReconcileTasksOne, two \in ReconcileTasksTwo}

ReconcileResponses ==
    {CaughtData} \cup {Response(JBool(TRUE), StatusOf(tm, PollGroups), Absent, Absent, Absent, Absent) :
                          tm \in ReconcileTaskMaps}

reconcileRest == <<mounted, isVisible, loading, loadInFlightRef, lastDigestRef, outstanding,
                   lastCall, lastCaller, timer, lastSettle, dg, dispatcherVars, endpointVars, viewVars, logVars, formVars>>

\* startTransition(() => setData(json)) for the next response that is propagated
PropagateSnapshot(json) ==
    /\ issued < MaxReconciles
    /\ issued' = issued + 1
    /\ setData([serial |-> issued + 1, json |-> json])
    /\ UNCHANGED reconcileRest

ReconcileNext == \E json \in ReconcileResponses : PropagateSnapshot(json)

SpecReconcile == Init /\ [][ReconcileNext]_vars

---------------------------------------------------------------------------
(* statusDigest on its own: two snapshots with the same tasks and groups,  *)
(* enumerated in any two orders, are digested.                             *)

DigestTaskEntries == {KV(<<"0">>, PollTaskRunning), KV(<<"1">>, PollTaskDone)}

DigestGroupEntries ==
    {KV(sDefault, Group(JNum(1), JStr(sRunning))),
     KV(<<"g">>, Group(Absent, JStr(sPaused))),
     KV(<<"h">>, Group(JNum(2), JStr(sRunning)))}

\* the objects that hold some of the entries, in every insertion order
ObjectsOver(entries) ==
    {JObj(<<>>)}
    \cup {JObj(<<e>>) : e \in entries}
    \cup UNION {{JObj(<<e, f>>) : f \in entries \ {e}} : e \in entries}
    \cup UNION {UNION {{JObj(<<e, f, g>>) : g \in entries \ {e, f}} : f \in entries \ {e}} : e \in entries}

DigestStatuses ==
    {StatusOf(tm, gm) : tm \in ObjectsOver(DigestTaskEntries), gm \in ObjectsOver(DigestGroupEntries)}

entrySet(o) == {o.kv[i] : i \in 1..Len(o.kv)}

\* a and b hold the same tasks and the same groups with equal fields
sameContent(a, b) ==
    /\ entrySet(a.tasks) = entrySet(b.tasks)
    /\ entrySet(a.groups) = entrySet(b.groups)

digestRest == <<mounted, isVisible, loading, loadInFlightRef, lastDigestRef, data, tasks,
                taskCacheRef, nextRef, outstanding, issued, lastCall, lastCaller, timer, lastSettle,
                dispatcherVars, endpointVars, viewVars, logVars, formVars>>

DigestInit ==
    /\ mounted = FALSE
    /\ isVisible = TRUE
    /\ loading = TRUE
    /\ loadInFlightRef = FALSE
    /\ lastDigestRef = Null
    /\ data = InitialData
    /\ tasks = <<>>
    /\ taskCacheRef = EmptyCache
    /\ nextRef = 1
    /\ outstanding = 0
    /\ issued = 0
    /\ lastCall = "none"
    /\ lastCaller = "none"
    /\ timer = 0
    /\ lastSettle = NoSettle
    /\ DispatcherInit
    /\ EndpointInit
    /\ ViewInit
    /\ LogInit
    /\ FormInit
    /\ \E a \in DigestStatuses, b \in DigestStatuses :
          /\ sameContent(a, b)
          /\ dg = [a |-> a, b |-> b, da |-> Absent, db |-> Absent]

\* statusDigest is applied to both snapshots
ComputeDigests ==
    /\ dg.da = Absent
    /\ dg' = [dg EXCEPT !.da = JStr(statusDigest(dg.a)), !.db = JStr(statusDigest(dg.b))]
    /\ UNCHANGED digestRest

SpecDigest == DigestInit /\ [][ComputeDigests]_vars

---------------------------------------------------------------------------
(* Decoding on its own: a snapshot that holds one raw record, well formed  *)
(* or not, is propagated and the tasks memo reconciles it.                 *)

MaxDecodes == 1

sErrored == <<"E", "r", "r", "o", "r", "e", "d">>
sStashed == <<"S", "t", "a", "s", "h", "e", "d">>
sLocked == <<"L", "o", "c", "k", "e", "d">>
sDependencyFailed == <<"D", "e", "p", "e", "n", "d", "e", "n", "c", "y", "F", "a", "i", "l", "e", "d">>

\* the result field of a status detail: the daemon reports a string or a single-key
\* object; the other values are what a malformed record may hold
DecodeResults ==
    {Absent, Null, JNum(1), JObj(<<>>),
     JStr(sSuccess), JStr(sKilled), JStr(sErrored), JStr(sDependencyFailed),
     Variant(sFailed, JNum(1)), Variant(sSuccess, Null), Variant(sErrored, Null)}

DecodeDetails ==
    {Null} \cup {Detail(JStr(<<"t", "1">>), JStr(<<"t", "2">>), Absent, result) : result \in DecodeResults}

DecodeKeys == {sQueued, sRunning, sPaused, sDone, sStashed, sLocked, sDoneLower, <<>>}

DecodeStatuses ==
    {Absent, Null, JStr(sRunning), JStr(<<>>), JNum(0), JNum(7), JBool(TRUE), JObj(<<>>)}
    \cup {Variant(key, detail) : key \in DecodeKeys, detail \in DecodeDetails}
    \cup {JObj(<<KV(sStashed, Null), KV(sDone, detail)>>) : detail \in DecodeDetails}

DecodeCommands ==
    {JStr(<<"a">>), JArr(<<<<"a">>, <<"b">>>>), JArr(<<>>), Absent, Null, JNum(3), JBool(TRUE), JObj(<<>>)}

\* the raw records: every status with a string command, every command with three of
\* the statuses, and an entry that is not an object at all
DecodeTasks ==
    {RawTask(status, Absent, JStr(<<"a">>), Absent, Absent, Absent) : status \in DecodeStatuses}
    \cup {RawTask(status, JStr(<<"g">>), command, Absent, Absent, Absent) :
            status \in {Absent, JObj(<<>>), Variant(sRunning, Null)}, command \in DecodeCommands}
    \cup {Null, JStr(<<"x">>)}

DecodeResponses ==
    {Response(JBool(TRUE), StatusOf(JObj(<<KV(<<"6">>, task)>>), PollGroups), Absent, Absent, Absent, Absent) :
        task \in DecodeTasks}

\* startTransition(() => setData(json)) and the tasks memo for the snapshot
DecodeSnapshot(json) ==
    /\ issued < MaxDecodes
    /\ issued' = issued + 1
    /\ setData([serial |-> issued + 1, json |-> json])
    /\ UNCHANGED reconcileRest

DecodeNext == \E json \in DecodeResponses : DecodeSnapshot(json)

SpecDecode == Init /\ [][DecodeNext]_vars

---------------------------------------------------------------------------
(* The action dispatcher: runTaskAction, runBatchAction, the selection and *)
(* the action menu of a row.  A call is a fetch in flight,                 *)
(* [n, id, action, batch]; batch is 0 for a call made from a row's menu    *)
(* and the number of the batch loop otherwise.  A batch is a suspended     *)
(* loop [b, rest, action, n]: the ids still to come and the number its     *)
(* next call will carry.                                                   *)

MaxCalls == 2

sColon == <<":">>
sStart == <<"s", "t", "a", "r", "t">>
sPause == <<"p", "a", "u", "s", "e">>
sResume == <<"r", "e", "s", "u", "m", "e">>
sRestart == <<"r", "e", "s", "t", "a", "r", "t">>
sKill == <<"k", "i", "l", "l">>
sRemove == <<"r", "e", "m", "o", "v", "e">>

\* the action of each entry of actionDefs
actionDefs == <<sStart, sPause, sResume, sRestart, sKill, sRemove>>

\* the menu items and batch buttons that are clicked
ClickedActions == {sKill, sPause}

\* `${id}:${action}`
pendingKey(id, action) == id \o sColon \o action

RECURSIVE splitFrom(_, _, _)
splitFrom(s, sep, piece) ==
    IF s = <<>> THEN <<piece>>
    ELSE IF Head(s) = sep THEN <<piece>> \o splitFrom(Tail(s), sep, <<>>)
    ELSE splitFrom(Tail(s), sep, Append(piece, Head(s)))

\* s.split(sep) for a separator of one character
split(s, sep) == splitFrom(s, sep, <<>>)

\* an element of a destructured array; undefined past the end, falsy like ""
pieceAt(pieces, i) == IF i <= Len(pieces) THEN pieces[i] ELSE <<>>

\* the keys that pendingById files under id
filedUnder(pending, id) ==
    {key \in pending : /\ pieceAt(split(key, ":"), 1) # <<>>
                       /\ pieceAt(split(key, ":"), 2) # <<>>
                       /\ pieceAt(split(key, ":"), 1) = id}

\* pendingById.get(id) ?? EMPTY_PENDING
pendingById(pending, id) == {pieceAt(split(key, ":"), 2) : key \in filedUnder(pending, id)}

\* disabled of the menu item of an action in the row of task id, whose pendingActions
\* prop is pendingById.get(task.id) ?? EMPTY_PENDING
disabled(pending, id, action) == pendingKey(id, action) \in pendingById(pending, id)

\* the snapshot whose rows the dispatcher acts on
ActionsResponse ==
    Response(JBool(TRUE),
             StatusOf(JObj(<<KV(<<"8">>, PollTaskRunning), KV(<<"9">>, PollTaskRunning)>>), PollGroups),
             Absent, Absent, Absent, Absent)

rowIds(rows) == {rows[i].id : i \in 1..Len(rows)}

Call(n, id, action, batch) == [n |-> n, id |-> id, action |-> action, batch |-> batch]

\* a loop that starts the call of every id without awaiting any
issuedBeforeAwait_all(ids) == ids

\* for (const id of ids) { await runTaskAction(id, action) }: the ids whose call has
\* been issued when the loop first suspends
issuedBeforeAwait(ids) == IF ids = <<>> THEN <<>> ELSE <<Head(ids)>>

\* the calls issued for ids, numbered from first
callsFor(ids, action, batch, first) ==
    {Call(first + i - 1, ids[i], action, batch) : i \in 1..Len(ids)}

keysFor(ids, action) == {pendingKey(ids[i], action) : i \in 1..Len(ids)}

dispatcherRest == <<pollVars, dg, endpointVars, viewVars, logVars, formVars>>

\* a snapshot is propagated and the table shows its rows
ShowTasks ==
    /\ issued = 0
    /\ issued' = 1
    /\ setData([serial |-> 1, json |-> ActionsResponse])
    /\ UNCHANGED reconcileRest

\* toggleSelect(id), from the checkbox of a row
ToggleSelect(id) ==
    /\ id \in rowIds(tasks)
    /\ selectedIds' = IF \E i \in 1..Len(selectedIds) : selectedIds[i] = id
                      THEN SelectSeq(selectedIds, LAMBDA x : x # id)
                      ELSE Append(selectedIds, id)
    /\ UNCHANGED <<pendingActions, calls, batches, nextCall, lastOutcome>>
    /\ UNCHANGED dispatcherRest

\* a click on an enabled item of a row's action menu: handleRunAction, and
\* runTaskAction up to its await
RowAction(id, action) ==
    /\ id \in rowIds(tasks)
    /\ ~disabled(pendingActions, id, action)
    /\ nextCall <= MaxCalls
    /\ pendingActions' = pendingActions \cup {pendingKey(id, action)}
    /\ calls' = calls \cup {Call(nextCall, id, action, 0)}
    /\ nextCall' = nextCall + 1
    /\ UNCHANGED <<selectedIds, batches, lastOutcome>>
    /\ UNCHANGED dispatcherRest

\* runBatchAction with ids = Array.from(selectedIds), up to the first await; started
\* are the calls of the ids in now
startBatch(ids, action, now) ==
    /\ pendingActions' = pendingActions \cup keysFor(now, action)
    /\ calls' = calls \cup callsFor(now, action, nextCall, nextCall)
    /\ batches' = batches \cup {[b |-> nextCall, rest |-> SubSeq(ids, Len(now) + 1, Len(ids)),
                                 action |-> action, n |-> nextCall + Len(now)]}
    /\ nextCall' = nextCall + Len(ids)

\* a click on a batch button, enabled while something is selected
BatchAction(action) ==
    /\ Len(selectedIds) > 0
    /\ nextCall + Len(selectedIds) - 1 <= MaxCalls
    /\ startBatch(selectedIds, action, issuedBeforeAwait(selectedIds))
    /\ UNCHANGED <<selectedIds, lastOutcome>>
    /\ UNCHANGED dispatcherRest

\* what a fetch of the action endpoint settles with: a response that says ok, a
\* response that says ok: false, or a rejected promise
CallOutcomes == {"ok", "refused", "throw"}

\* a batch loop that catches the error of a call and goes on with the next id
loopEnds_caught(o, rest) == rest = <<>>

\* whether the for loop of runBatchAction is left when a call has settled with o and
\* rest are the ids to come: a rejected fetch is not caught and ends the loop
loopEnds(o, rest) == o = "throw" \/ rest = <<>>

\* the batch loop of a settled call resumes: it ends on a throw or after the last id,
\* and otherwise runs runTaskAction for the next id up to its await
resumeBatch(c, o, loop) ==
    IF loopEnds(o, loop.rest)
    THEN /\ pendingActions' = pendingActions \ {pendingKey(c.id, c.action)}
         /\ calls' = calls \ {c}
         /\ batches' = batches \ {loop}
    ELSE /\ pendingActions' = (pendingActions \ {pendingKey(c.id, c.action)})
                                \cup {pendingKey(Head(loop.rest), loop.action)}
         /\ calls' = (calls \ {c}) \cup {Call(loop.n, Head(loop.rest), loop.action, loop.b)}
         /\ batches' = (batches \ {loop}) \cup {[loop EXCEPT !.rest = Tail(loop.rest), !.n = loop.n + 1]}

\* the fetch of call c settles: the finally block of runTaskAction deletes the key,
\* and the caller, if it is a batch loop, resumes
SettleCall(c, o) ==
    /\ c \in calls
    /\ lastOutcome' = [kind |-> o, n |-> c.n, id |-> c.id, action |-> c.action]
    /\ IF c.batch = 0 \/ ~\E loop \in batches : loop.b = c.batch
       THEN /\ pendingActions' = pendingActions \ {pendingKey(c.id, c.action)}
            /\ calls' = calls \ {c}
            /\ UNCHANGED batches
       ELSE resumeBatch(c, o, CHOOSE loop \in batches : loop.b = c.batch)
    /\ UNCHANGED <<selectedIds, nextCall>>
    /\ UNCHANGED dispatcherRest

ActionsNext ==
    \/ ShowTasks
    \/ \E id \in {<<"8">>, <<"9">>} : ToggleSelect(id)
    \/ \E id \in {<<"8">>, <<"9">>}, action \in ClickedActions : RowAction(id, action)
    \/ \E action \in ClickedActions : BatchAction(action)
    \/ \E c \in calls, o \in CallOutcomes : SettleCall(c, o)

SpecActions == Init /\ [][ActionsNext]_vars

---------------------------------------------------------------------------
(* The action endpoint: POST /api/task/{id} and runAction.  request is the *)
(* request being handled, [t |-> "rec", id, body]; forwarded are the       *)
(* requests sent to the daemon backend; reply is the JSON answer with its  *)
(* HTTP status.                                                            *)

sStash == <<"s", "t", "a", "s", "h">>
sAdd == <<"a", "d", "d">>
sStop == <<"s", "t", "o", "p">>
sKillCapital == <<"K", "i", "l", "l">>
sKillUpper == <<"K", "I", "L", "L">>
sKillSpace == <<"k", "i", "l", "l", " ">>

\* const allowedActions = new Set([...])
allowedActions == {sStart, sRestart, sPause, sResume, sKill, sRemove}

\* a runAction that forwards whatever it is given
allowed_any(action) == TRUE

\* allowedActions.has(action)
allowed(action) == isString(action) /\ action.s \in allowedActions

\* a body that request.json() cannot parse
Malformed == [t |-> "malformed"]

Body(action) == [t |-> "rec", action |-> action]

EndpointActions ==
    {Absent, Null, JStr(<<>>), JNum(0), JBool(FALSE), JNum(5), JObj(<<>>), JArr(<<sKill>>)}
    \cup {JStr(a) : a \in allowedActions}
    \cup {JStr(a) : a \in {sStash, sAdd, sStop, sKillCapital, sKillUpper, sKillSpace}}

EndpointBodies == {Malformed, Null, JNum(1), JStr(sKill)} \cup {Body(action) : action \in EndpointActions}

EndpointIds == {<<"1">>, <<"9">>, <<"1", "0">>}

Request(id, body) == [t |-> "rec", id |-> id, body |-> body]

Reply(status, ok, result, error) == [t |-> "rec", status |-> status, ok |-> ok, result |-> result, error |-> error]

\* NextResponse.json({ ok: false, error }, { status })
Failure(status, error) == Reply(status, FALSE, Absent, JStr(error))

sMissingAction == <<"M", "i", "s", "s", "i", "n", "g", " ", "a", "c", "t", "i", "o", "n">>
sUnsupportedAction ==
    <<"U", "n", "s", "u", "p", "p", "o", "r", "t", "e", "d", " ", "a", "c", "t", "i", "o", "n", ":", " ">>
sThrown == <<"t", "h", "r", "o", "w", "n">>

\* what the handler does from its start to its first await of the backend: it answers
\* at once, or it forwards the action and waits
received(id, body, action) ==
    IF body = Malformed \/ body = Null
    THEN /\ reply' = Failure(500, sThrown)
         /\ UNCHANGED forwarded
    ELSE IF ~truthy(action)
    THEN /\ reply' = Failure(400, sMissingAction)
         /\ UNCHANGED forwarded
    ELSE IF ~allowed(action)
    THEN /\ reply' = Failure(500, sUnsupportedAction \o template(action))
         /\ UNCHANGED forwarded
    ELSE /\ forwarded' = Append(forwarded, [id |-> id, action |-> action])
         /\ UNCHANGED reply

endpointRest == <<pollVars, dg, dispatcherVars, viewVars, logVars, formVars>>

\* POST up to the await in backendFetch
Receive(id, body) ==
    /\ request = Absent
    /\ request' = Request(id, body)
    /\ received(id, body, field(body, "action"))
    /\ UNCHANGED endpointRest

\* what the forwarded request settles with: a payload with a result, a payload
\* without one, a response that is not ok, or a fetch that rejects
BackendOutcomes == {"result", "empty", "refused", "unreachable"}

\* the backend settles and the handler runs to its end
Answer(o) ==
    /\ request # Absent
    /\ reply = Absent
    /\ reply' = CASE o = "result" -> Reply(200, TRUE, JStr(sDone), Absent)
                  [] o = "empty" -> Reply(200, TRUE, Absent, Absent)
                  [] OTHER -> Failure(500, sThrown)
    /\ UNCHANGED <<request, forwarded>>
    /\ UNCHANGED endpointRest

EndpointNext ==
    \/ \E id \in EndpointIds, body \in EndpointBodies : Receive(id, body)
    \/ \E o \in BackendOutcomes : Answer(o)

SpecEndpoint == Init /\ [][EndpointNext]_vars

---------------------------------------------------------------------------
(* Date.parse, for the date-time strings the daemon writes.  An instant is *)
(* [days, ms]: the days since 1970-01-01 and the milliseconds of the day.  *)
(* A string without a zone is local time; the zone of the browser is taken *)
(* to be UTC.  Any other string is taken not to parse.                     *)

digitsAt(s, i, n) == i + n - 1 <= Len(s) /\ \A k \in i..(i + n - 1) : isDigit(s[k])

charAt(s, i, set) == i <= Len(s) /\ s[i] \in set

\* \d{4}-\d{2}-\d{2}[ T]\d{2}:\d{2}:\d{2} at the start of s
fixedShape(s) ==
    /\ digitsAt(s, 1, 4) /\ charAt(s, 5, {"-"})
    /\ digitsAt(s, 6, 2) /\ charAt(s, 8, {"-"})
    /\ digitsAt(s, 9, 2) /\ charAt(s, 11, {" ", "T"})
    /\ digitsAt(s, 12, 2) /\ charAt(s, 14, {":"})
    /\ digitsAt(s, 15, 2) /\ charAt(s, 17, {":"})
    /\ digitsAt(s, 18, 2)

RECURSIVE digitsRun(_, _)
\* how many digits follow one another from position i
digitsRun(s, i) == IF i <= Len(s) /\ isDigit(s[i]) THEN 1 + digitsRun(s, i + 1) ELSE 0

\* the last position of (?:\.\d+)? after the seconds
fractionEnd(s) == IF charAt(s, 20, {"."}) /\ digitsRun(s, 21) > 0 THEN 20 + digitsRun(s, 21) ELSE 19

\* the last position of (?:Z|[+-]\d{2}:?\d{2})? after position e
zoneEnd(s, e) ==
    IF charAt(s, e + 1, {"Z"}) THEN e + 1
    ELSE IF charAt(s, e + 1, {"+", "-"}) /\ digitsAt(s, e + 2, 2)
    THEN IF charAt(s, e + 4, {":"}) /\ digitsAt(s, e + 5, 2) THEN e + 6
         ELSE IF digitsAt(s, e + 4, 2) THEN e + 5
         ELSE e
    ELSE e

\* the last position of the first group of the pattern
stampEnd(s) == zoneEnd(s, fractionEnd(s))

numberAt(s, i, n) == digitsValue(SubSeq(s, i, i + n - 1))

\* days from 1970-01-01 to the day d of month m of year y
daysFromCivil(y, m, d) ==
    ((y - (IF m <= 2 THEN 1 ELSE 0)) \div 400) * 146097
     + ((y - (IF m <= 2 THEN 1 ELSE 0)) % 400) * 365
     + ((y - (IF m <= 2 THEN 1 ELSE 0)) % 400) \div 4
     - ((y - (IF m <= 2 THEN 1 ELSE 0)) % 400) \div 100
     + (153 * (IF m > 2 THEN m - 3 ELSE m + 9) + 2) \div 5 + d - 1 - 719468

\* the first three digits of the fraction, as milliseconds
fractionMs(s) ==
    IF fractionEnd(s) = 19 THEN 0
    ELSE numberAt(SubSeq(s, 21, fractionEnd(s)) \o <<"0", "0">>, 1, 3)

\* the offset of the zone from UTC, in milliseconds
zoneMs(s, e) ==
    IF stampEnd(s) <= e + 1 THEN 0
    ELSE (IF s[e + 1] = "-" THEN -1 ELSE 1)
          * (numberAt(s, e + 2, 2) * 3600000 + numberAt(s, stampEnd(s) - 1, 2) * 60000)

\* whether the fields of a string of the shape name an instant
validFields(s) ==
    /\ numberAt(s, 6, 2) \in 1..12
    /\ numberAt(s, 9, 2) \in 1..31
    /\ numberAt(s, 12, 2) <= 23
    /\ numberAt(s, 15, 2) <= 59
    /\ numberAt(s, 18, 2) <= 59

\* the milliseconds of the day before the zone is applied
dayMs(s) ==
    numberAt(s, 12, 2) * 3600000 + numberAt(s, 15, 2) * 60000 + numberAt(s, 18, 2) * 1000
     + fractionMs(s) - zoneMs(s, fractionEnd(s))

\* the instant of the day `days` and the millisecond `ms`, which may lie in a
\* neighbouring day
instant(days, ms) == [days |-> days + (ms + 86400000) \div 86400000 - 1, ms |-> (ms + 86400000) % 86400000]

\* Date.parse(s): Absent stands for NaN
DateParse(s) ==
    IF fixedShape(s) /\ stampEnd(s) = Len(s) /\ validFields(s)
    THEN instant(daysFromCivil(numberAt(s, 1, 4), numberAt(s, 6, 2), numberAt(s, 9, 2)), dayMs(s))
    ELSE Absent

---------------------------------------------------------------------------
(* The log view: logText is split into lines, every line is parsed, and    *)
(* the window keeps the tail.                                              *)

MaxTextLines == 2
MaxOverflow == 3

\* a text of pieces a and b, the last piece of a running on into the first of b
joinHalves(a, b) == SubSeq(a, 1, Len(a) - 1) \o <<a[Len(a)] \o b[1]>> \o Tail(b)

RECURSIVE splitLF(_)
\* the pieces of s between its line feeds
splitLF(s) ==
    IF s = <<>> THEN <<<<>>>>
    ELSE IF Len(s) = 1 THEN (IF s[1] = "\n" THEN <<<<>>, <<>>>> ELSE <<s>>)
    ELSE CHOOSE pieces \in {joinHalves(a, b) : a \in {splitLF(SubSeq(s, 1, Len(s) \div 2))},
                                                b \in {splitLF(SubSeq(s, Len(s) \div 2 + 1, Len(s)))}} : TRUE

\* \r? of the separator: a piece that a line feed ends loses one carriage return
stripCR(piece) ==
    IF piece # <<>> /\ piece[Len(piece)] = "\r" THEN SubSeq(piece, 1, Len(piece) - 1) ELSE piece

linesOf(pieces) == [i \in 1..Len(pieces) |-> IF i < Len(pieces) THEN stripCR(pieces[i]) ELSE pieces[i]]

\* logText.split(/\r?\n/)
splitLines(s) == linesOf(splitLF(s))

RECURSIVE spaceRun(_, _)
\* how many characters of \s follow one another from position i
spaceRun(s, i) == IF i <= Len(s) /\ s[i] \in {" ", "\t", "\r"} THEN 1 + spaceRun(s, i + 1) ELSE 0

\* the second group (.*) when the first group ends at e
restAfter(s, e) == SubSeq(s, e + spaceRun(s, e + 1) + 1, Len(s))

\* line.match(...): the dot matches no line terminator, so the rest must hold none
matchesStamp(line) ==
    /\ fixedShape(line)
    /\ \A i \in 1..Len(restAfter(line, stampEnd(line))) : restAfter(line, stampEnd(line))[i] # "\r"

\* new Date(parsed).toLocaleString()
localString(parsed) == [t |-> "local", at |-> parsed]

LogLine(timestamp, rest, malformed) == [timestamp |-> timestamp, rest |-> rest, malformed |-> malformed]

\* the entry of a line that matched, ts and rest being the groups
stampedLine(ts, rest, parsed, local) ==
    IF parsed = Absent THEN LogLine(JStr(ts), rest, TRUE)
    ELSE LogLine(IF local THEN localString(parsed) ELSE JStr(ts), rest, FALSE)

\* a parser that flags every line that carries no valid timestamp
parseLine_strict(line, local) ==
    IF ~matchesStamp(line) THEN LogLine(Null, line, TRUE)
    ELSE stampedLine(SubSeq(line, 1, stampEnd(line)), restAfter(line, stampEnd(line)),
                     DateParse(SubSeq(line, 1, stampEnd(line))), local)

\* the callback of lines.map
parseLine(line, local) ==
    IF ~matchesStamp(line) THEN LogLine(Null, line, FALSE)
    ELSE stampedLine(SubSeq(line, 1, stampEnd(line)), restAfter(line, stampEnd(line)),
                     DateParse(SubSeq(line, 1, stampEnd(line))), local)

parseLines(lines, local) == [i \in 1..Len(lines) |-> parseLine(lines[i], local)]

\* the parsedLogLines memo
parsedLogLinesOf(taskId, text, local) ==
    IF taskId = <<>> THEN <<>> ELSE parseLines(splitLines(text), local)

\* a window that keeps the head of the log
windowOf_head(parsed, limit) ==
    IF Len(parsed) <= limit
    THEN [lines |-> parsed, offset |-> 0, total |-> Len(parsed), limit |-> limit]
    ELSE [lines |-> SubSeq(parsed, 1, limit), offset |-> Len(parsed) - limit,
          total |-> Len(parsed), limit |-> limit]

\* the logWindow memo
windowOf(parsed, limit) ==
    IF Len(parsed) <= limit
    THEN [lines |-> parsed, offset |-> 0, total |-> Len(parsed), limit |-> limit]
    ELSE [lines |-> SubSeq(parsed, Len(parsed) - limit + 1, Len(parsed)),
          offset |-> Len(parsed) - limit, total |-> Len(parsed), limit |-> limit]

\* the two memos are computed again
renderLog(parsed) ==
    /\ parsedLogLines' = parsed
    /\ logWindow' = windowOf(parsed, LogLimit)

logRest == <<pollVars, dg, dispatcherVars, endpointVars, viewVars, formVars>>

\* the log of task id is asked for and the response text arrives
LogLoaded(id, text) ==
    /\ logTaskId' = id
    /\ logText' = text
    /\ \E parsed \in {parsedLogLinesOf(id, text, useLocalTime)} : renderLog(parsed)
    /\ UNCHANGED useLocalTime
    /\ UNCHANGED logRest

\* the Local time checkbox
ToggleLocalTime ==
    /\ useLocalTime' = ~useLocalTime
    /\ \E parsed \in {parsedLogLinesOf(logTaskId, logText, ~useLocalTime)} : renderLog(parsed)
    /\ UNCHANGED <<logTaskId, logText>>
    /\ UNCHANGED logRest

sStampGood == <<"2", "0", "2", "4", "-", "0", "1", "-", "0", "2", "T", "0", "3", ":", "0", "4", ":", "0", "5">>
sStampBad == <<"2", "0", "2", "4", "-", "1", "3", "-", "0", "2", "T", "0", "3", ":", "0", "4", ":", "0", "5">>

\* the lines of the logs that are shown
LogLines ==
    {<<>>, <<"x", " ", "y">>,
     sStampGood \o <<"Z", " ", "o", "k">>,
     sStampBad \o <<"Z", " ", "n", "o">>,
     sStampGood \o <<".", "5", "+", "0", "1", ":", "0", "0", "t">>,
     sStampGood \o <<" ", "a", "\r", "b">>,
     sStampBad \o <<" ", "a", "\r", "b">>,
     SubSeq(sStampGood, 1, 10),
     <<" ">> \o sStampGood}

\* the lines that follow the first line of a log
LogEnds == {sStampBad \o <<" ", "a", "\r", "b">>}

LogSeparators == {<<"\n">>, <<"\r", "\n">>}

RECURSIVE TextsOf(_)
\* the texts of at most n lines
TextsOf(n) ==
    IF n = 1 THEN LogLines
    ELSE TextsOf(n - 1)
          \cup {text \o sep \o line : text \in TextsOf(n - 1), sep \in LogSeparators, line \in LogEnds}

LogTexts == TextsOf(MaxTextLines)

LogsNext ==
    \/ \E id \in {<<"0">>, <<"1">>}, text \in LogTexts : LogLoaded(id, text)
    \/ ToggleLocalTime

SpecLogs == Init /\ [][LogsNext]_vars

\* a log of count lines x
fillerText(count) == [i \in 1..(2 * count - 1) |-> IF i % 2 = 1 THEN "x" ELSE "\n"]

\* the lines that a running task writes
LogTails == {<<"x">>, sStampBad \o <<"Z", " ", "n", "o">>}

\* the log of a task that has written LogLimit - MaxOverflow lines is asked for
LongLogLoaded == LogLoaded(<<"0">>, fillerText(LogLimit - MaxOverflow))

\* the task has written one more line and its log is asked for again
LogGrew(line) ==
    /\ logTaskId # <<>>
    /\ Len(parsedLogLines) < LogLimit + MaxOverflow
    /\ LogLoaded(logTaskId, logText \o <<"\n">> \o line)

LongLogsNext ==
    \/ LongLogLoaded
    \/ \E line \in LogTails : LogGrew(line)
    \/ ToggleLocalTime

SpecLongLogs == Init /\ [][LongLogsNext]_vars

---------------------------------------------------------------------------
(* Claims about the poll cycle                                             *)

\* a step in which a status request settles
settles == outstanding' = outstanding - 1

\* the identity of the response object that settles in such a step
settlingSerial == issued - outstanding + 1

okResponse(s) == s.kind = "json" /\ truthy(field(s.json, "ok"))

\* the digest load() goes by: the server's when the response carries one, else statusDigest
effectiveDigest(json) ==
    IF truthy(field(json, "digest")) THEN field(json, "digest")
    ELSE JStr(clientDigest(field(json, "status")))

\* C1: at most one status request is outstanding at any time; a call of load() made
\* while a poll is outstanding sends nothing and changes no poll state, a request is
\* sent only by a call made when none is outstanding, and a request that settles
\* starts no other request (a dropped call is not queued).
C1_AtMostOnePollInFlight ==
    /\ [](outstanding <= 1)
    /\ [][(lastCall' = "dropped" /\ lastCall # "dropped")
            => (loadInFlightRef /\ outstanding = 1
                /\ UNCHANGED <<issued, outstanding, loadInFlightRef, lastDigestRef, data, tasks>>)]_vars
    /\ [][issued' # issued
            => (~loadInFlightRef /\ outstanding = 0 /\ issued' = issued + 1 /\ outstanding' = 1)]_vars
    /\ [][settles => issued' = issued /\ outstanding' = 0]_vars

\* a call of load() was dropped while a request is outstanding
C1_Witness == lastCall = "dropped" /\ outstanding = 1 /\ loadInFlightRef

\* C2: after every poll that fails (an ok=false response, or a thrown error) the
\* stored digest is null and the client is offline.
C2_FailedPollClearsDigest ==
    (lastSettle.kind = "throw" \/ (lastSettle.kind = "json" /\ ~truthy(field(lastSettle.json, "ok"))))
        => (lastDigestRef = Null /\ ~truthy(field(data.json, "ok")))

\* C3: while the client is offline, the next poll that succeeds is propagated: the
\* displayed data is that response and has ok=true.
C3_OfflineSelfHeals ==
    [][(settles /\ ~truthy(field(data.json, "ok")) /\ okResponse(lastSettle'))
          => (data'.json = lastSettle'.json /\ truthy(field(data'.json, "ok")))]_vars

\* C4: a successful poll whose digest equals the stored digest leaves the displayed
\* data, the rows, the entity cache and the stored digest as they were.
C4_EqualDigestDiscards ==
    [][(settles /\ okResponse(lastSettle') /\ effectiveDigest(lastSettle'.json) = lastDigestRef)
          => UNCHANGED <<data, tasks, taskCacheRef, nextRef, lastDigestRef>>]_vars

\* a response with the stored digest, computed by the client, settled and the data
\* shown is still an earlier response
C4_Witness ==
    /\ okResponse(lastSettle)
    /\ lastSettle.computed
    /\ ~lastSettle.propagated
    /\ effectiveDigest(lastSettle.json) = lastDigestRef
    /\ outstanding = 0
    /\ data.serial < issued

\* the settling response is stored as the data, reconciled, and its digest stored
propagates(json) ==
    /\ data' = [serial |-> settlingSerial, json |-> json]
    /\ tasks' = normalizeTasks(field(json, "status"), taskCacheRef, nextRef).rows
    /\ lastDigestRef' = effectiveDigest(json)

\* C5 as claimed: every successful poll whose digest differs from the stored digest
\* stores the new digest and is propagated, a response with cached=true included.
C5_ChangedDigestPropagates ==
    [][(settles /\ okResponse(lastSettle') /\ effectiveDigest(lastSettle'.json) # lastDigestRef)
          => propagates(lastSettle'.json)]_vars

\* C5 as amended: a successful poll whose digest differs from the stored digest stores
\* the new digest and is propagated, unless the response carries cached=true while a
\* digest is stored; a response with cached=true is propagated when none is stored.
C5_ChangedDigestPropagatesUnlessCached ==
    [][(settles /\ okResponse(lastSettle') /\ effectiveDigest(lastSettle'.json) # lastDigestRef
        /\ ~(truthy(field(lastSettle'.json, "cached")) /\ truthy(lastDigestRef)))
          => propagates(lastSettle'.json)]_vars

\* a response with cached=true was propagated and its digest stored
C5_Witness ==
    /\ okResponse(lastSettle)
    /\ truthy(field(lastSettle.json, "cached"))
    /\ lastSettle.propagated
    /\ data.json = lastSettle.json
    /\ lastDigestRef = effectiveDigest(lastSettle.json)

\* C6: for a successful response that carries a digest, statusDigest is not called, the
\* response is discarded exactly when its digest is the stored one or it carries
\* cached=true while a digest is stored, and on propagation the stored digest becomes
\* the server's; the client digest is computed only for a response without a digest,
\* and is then the digest stored on propagation.
C6_ServerDigestAuthoritative ==
    [][(settles /\ okResponse(lastSettle'))
          => LET json == lastSettle'.json
                 server == field(json, "digest")
             IN  IF truthy(server)
                 THEN /\ ~lastSettle'.computed
                      /\ lastSettle'.propagated
                           <=> ~(server = lastDigestRef
                                 \/ (truthy(field(json, "cached")) /\ truthy(lastDigestRef)))
                      /\ lastSettle'.propagated => lastDigestRef' = server
                      /\ ~lastSettle'.propagated => lastDigestRef' = lastDigestRef
                 ELSE /\ lastSettle'.propagated
                           => (lastSettle'.computed
                               /\ lastDigestRef' = JStr(clientDigest(field(json, "status"))))
                      /\ lastSettle'.computed
                           => (lastSettle'.propagated
                                 <=> JStr(clientDigest(field(json, "status"))) # lastDigestRef)]_vars

\* a response carrying a server digest replaced a digest the client had computed
C6_Witness ==
    /\ okResponse(lastSettle)
    /\ truthy(field(lastSettle.json, "digest"))
    /\ lastSettle.propagated
    /\ ~lastSettle.computed
    /\ lastDigestRef = field(lastSettle.json, "digest")
    /\ issued >= 2

\* C10: with no server digest, a successful poll whose response differs from the
\* previous response in the status or in the server's group aggregates is not
\* discarded as unchanged.
C10_DigestCoversDerivationInputs ==
    [][(/\ settles
        /\ okResponse(lastSettle) /\ lastSettle.propagated
        /\ ~truthy(field(lastSettle.json, "digest"))
        /\ okResponse(lastSettle')
        /\ ~truthy(field(lastSettle'.json, "digest"))
        /\ ~truthy(field(lastSettle'.json, "cached"))
        /\ (\/ field(lastSettle'.json, "status") # field(lastSettle.json, "status")
            \/ serverGroupEntries(field(lastSettle'.json, "stats"))
                 # serverGroupEntries(field(lastSettle.json, "stats"))))
          => lastSettle'.propagated]_vars

---------------------------------------------------------------------------
(* Claims about reconciliation                                             *)

\* the ids of the tasks of a response
taskIds(d) ==
    LET status == field(d.json, "status")
    IN  IF status = Absent THEN {} ELSE {e.k : e \in entrySet(field(status, "tasks"))}

rawTaskOf(d, id) == get(field(field(d.json, "status"), "tasks"), id)

rowOf(rows, id) == rows[CHOOSE i \in 1..Len(rows) : rows[i].id = id]

rowRefs(rows) == {rows[i].ref : i \in 1..Len(rows)}

\* C7: a task that is in two consecutive propagated snapshots with the same raw fields
\* keeps the very same TaskRow object, and its cache entry is carried into the new cache.
C7_UnchangedTaskKeepsItsRow ==
    [][\A id \in taskIds(data) \cap taskIds(data') :
          rawTaskOf(data, id) = rawTaskOf(data', id)
            => (/\ rowOf(tasks', id) = rowOf(tasks, id)
                /\ rowOf(tasks', id).ref \in rowRefs(tasks)
                /\ taskCacheRef'[id] = taskCacheRef[id])]_vars

\* task 2 was built by the first reconciliation and reused by the second, which built
\* the row of task 1
C7_Witness ==
    /\ issued = 2
    /\ taskIds(data) = {<<"1">>, <<"2">>}
    /\ Len(tasks) = 2
    /\ nextRef = 3
    /\ rowOf(tasks, <<"2">>).ref = 1
    /\ rowOf(tasks, <<"1">>).ref = 2

\* C8: a task that is in two consecutive propagated snapshots with a raw field changed
\* gets a new TaskRow object, built from the new fields.
C8_ChangedTaskGetsNewRow ==
    [][\A id \in taskIds(data) \cap taskIds(data') :
          rawTaskOf(data, id) # rawTaskOf(data', id)
            => (/\ rowOf(tasks', id).ref \notin rowRefs(tasks)
                /\ rowOf(tasks', id) = buildRow(id, rawTaskOf(data', id), rowOf(tasks', id).ref))]_vars

\* C11: after each reconciliation the entity cache holds exactly the task ids of the
\* snapshot just reconciled (none when the data has no status), so it is never larger
\* than the task count of that snapshot: ids of the previous cache that the snapshot
\* lacks are dropped.
C11_CacheHoldsSnapshotIds ==
    /\ DOMAIN taskCacheRef = taskIds(data)
    /\ Cardinality(DOMAIN taskCacheRef) <= Len(tasks)
    /\ \A id \in DOMAIN taskCacheRef : taskCacheRef[id].row = rowOf(tasks, id)

\* the first snapshot held task 1 and another task, the second only task 1: the row of
\* task 1 is the one built first and the other entry is gone
C11_Witness ==
    /\ issued = 2
    /\ taskIds(data) = {<<"1">>}
    /\ DOMAIN taskCacheRef = {<<"1">>}
    /\ rowOf(tasks, <<"1">>).ref = 1
    /\ nextRef = 3

\* C12: the rows are in ascending order of Number(id) and there is exactly one row per
\* task id of the snapshot, whether rows are reused or new and whatever order the
\* snapshot enumerates its tasks in.
C12_RowsSortedOnePerId ==
    /\ \A i, j \in 1..Len(tasks) :
          i < j => digitsValue(tasks[i].id) <= digitsValue(tasks[j].id)
    /\ {tasks[i].id : i \in 1..Len(tasks)} = taskIds(data)
    /\ Len(tasks) = Cardinality(taskIds(data))

\* the snapshot enumerates task 1 before task 00; the row of 00 is reused from the
\* snapshot before, the row of 1 is new, and 00 comes first
C12_Witness ==
    /\ issued = 2
    /\ Len(tasks) = 2
    /\ tasks[1].id = <<"0", "0">> /\ tasks[1].ref = 1
    /\ tasks[2].id = <<"1">> /\ tasks[2].ref = 2

---------------------------------------------------------------------------
(* Claims about statusDigest                                               *)

\* C9: two snapshots that hold the same tasks and groups with equal fields have the
\* same digest, whatever order their task map and group map enumerate the keys in.
C9_DigestIgnoresKeyOrder == dg.da # Absent => dg.da = dg.db

---------------------------------------------------------------------------
(* Claims about decoding                                                   *)

\* the lifecycle state a raw status carries: the one named by its first key when the
\* status is an object and the key is one of the four variants, unknown otherwise
lifecycleOf(status) ==
    IF status.t = "obj" /\ status.kv # <<>>
    THEN CASE objectKeys(status)[1] = sQueued -> "queued"
           [] objectKeys(status)[1] = sRunning -> "running"
           [] objectKeys(status)[1] = sPaused -> "paused"
           [] objectKeys(status)[1] = sDone -> "done"
           [] OTHER -> "unknown"
    ELSE "unknown"

\* the variant key of the result of a Done status, Absent when it has none
resultKeyOf(status) == parseResult(field(get(status, sDone), "result"))

\* the raw status of the record a row was built from
rawStatusOf(row) == field(rawTaskOf(data, row.id), "status")

\* C13: a record whose status is absent, not an object, an empty object or an object
\* whose first key is not Queued/Running/Paused/Done decodes to the state unknown with
\* filterKey unknown; a command that is neither a string nor an array decodes to the
\* empty string; and a row is emitted for every id of the snapshot, malformed or not.
C13_MalformedRecordsDecode ==
    /\ Len(tasks) = Cardinality(taskIds(data))
    /\ \A id \in taskIds(data) :
          \E i \in 1..Len(tasks) :
             /\ tasks[i].id = id
             /\ lifecycleOf(field(rawTaskOf(data, id), "status")) = "unknown"
                  => (tasks[i].timing.state = "unknown" /\ tasks[i].filterKey = "unknown")
             /\ field(rawTaskOf(data, id), "command").t \notin {"str", "arr"}
                  => tasks[i].command = <<>>

\* a record with an empty status object and a numeric command has been decoded
C13_Witness ==
    /\ issued = 1
    /\ rawTaskOf(data, <<"6">>) = RawTask(JObj(<<>>), JStr(<<"g">>), JNum(3), Absent, Absent, Absent)
    /\ Len(tasks) = 1
    /\ tasks[1].id = <<"6">>
    /\ tasks[1].filterKey = "unknown"
    /\ tasks[1].command = <<>>

\* C14: filterKey is one of the six buckets and follows the lifecycle variant: the state
\* itself for Queued/Running/Paused/unknown, done exactly for a Done with result
\* Success, failed for every other Done; the status text is Done for a successful Done,
\* the result's variant key for a Done with another result, Failed for a Done without one.
C14_FilterKeyFollowsLifecycle ==
    \A i \in 1..Len(tasks) :
       /\ tasks[i].filterKey \in {"running", "queued", "paused", "done", "failed", "unknown"}
       /\ tasks[i].timing.state = lifecycleOf(rawStatusOf(tasks[i]))
       /\ tasks[i].timing.state # "done" => tasks[i].filterKey = tasks[i].timing.state
       /\ tasks[i].timing.state = "done" =>
            /\ tasks[i].filterKey = "done" <=> resultKeyOf(rawStatusOf(tasks[i])) = JStr(sSuccess)
            /\ tasks[i].filterKey \in {"done", "failed"}
            /\ resultKeyOf(rawStatusOf(tasks[i])) = JStr(sSuccess) => tasks[i].status = sDone
            /\ resultKeyOf(rawStatusOf(tasks[i])) \notin {JStr(sSuccess), Absent}
                 => tasks[i].status = resultKeyOf(rawStatusOf(tasks[i])).s
            /\ resultKeyOf(rawStatusOf(tasks[i])) = Absent => tasks[i].status = sFailed

\* a Done record whose result is Killed has been decoded
C14_Witness ==
    /\ issued = 1
    /\ Len(tasks) = 1
    /\ resultKeyOf(rawStatusOf(tasks[1])) = JStr(sKilled)
    /\ tasks[1].timing.state = "done"
    /\ tasks[1].status = sKilled
    /\ tasks[1].filterKey = "failed"

\* C15: every Done task whose result is not Success, whatever key its result carries,
\* has filterKey failed and tone danger.
C15_FailedDoneIsDanger ==
    \A i \in 1..Len(tasks) :
       (lifecycleOf(rawStatusOf(tasks[i])) = "done" /\ resultKeyOf(rawStatusOf(tasks[i])) # JStr(sSuccess))
         => (tasks[i].filterKey = "failed" /\ tasks[i].statusTone = "danger")

---------------------------------------------------------------------------
(* Claims about the action dispatcher                                      *)

\* the error messages the page renders from the state of this model: the error of the
\* last propagated response.  runTaskAction has no error state of its own, and the
\* other messages of the page (addError, groupError, callbackError, the log error)
\* are set only by the handlers of their own forms.
visibleErrors == <<field(data.json, "error")>>

\* C16: the key of every call in flight is in the pending set, from the dispatch until
\* the call settles, and once no call is in flight the pending set is empty.
C16_KeyPendingWhileCallInFlight ==
    /\ \A c \in calls : pendingKey(c.id, c.action) \in pendingActions
    /\ calls = {} => pendingActions = {}

\* C17: the menu item of an action in the row of a task is rendered disabled exactly
\* while the key of that task and action is in the pending set.
C17_PendingControlIsDisabled ==
    \A id \in rowIds(tasks) :
       \A i \in 1..Len(actionDefs) :
          disabled(pendingActions, id, actionDefs[i])
            <=> pendingKey(id, actionDefs[i]) \in pendingActions

\* C18: a batch never has more than one call in flight: the call for the next id is
\* issued only when the call for the previous id has settled.
C18_BatchIsSequential ==
    /\ \A c \in calls : \A d \in calls : (c.batch # 0 /\ c.batch = d.batch) => c = d
    /\ \A c \in calls : \A loop \in batches : loop.b = c.batch => c.n = loop.n - 1

\* the call for the second id of a batch is in flight, after the call for the first
\* id has settled
C18_Witness ==
    /\ lastOutcome.kind = "ok"
    /\ \E c \in calls :
          /\ c.batch = lastOutcome.n
          /\ c.n = c.batch + 1
          /\ c.id = <<"9">>
          /\ lastOutcome.id = <<"8">>

\* C20: when a call settles with a response that says ok: false or with a rejected
\* promise, the pending key of the call is cleared and an error message becomes visible.
C20_RejectedActionShowsError ==
    [][(lastOutcome' # lastOutcome /\ lastOutcome'.kind \in {"refused", "throw"})
         => (/\ pendingKey(lastOutcome'.id, lastOutcome'.action) \notin pendingActions'
             /\ visibleErrors' # visibleErrors)]_vars

---------------------------------------------------------------------------
(* Claims about the action endpoint                                        *)

\* the action a request asks for: the action field of a body that is an object
submittedAction(req) == field(field(req, "body"), "action")

\* C19: a POST whose action is missing or is not one of start, pause, resume, restart,
\* kill, remove is never forwarded to the backend and is answered with ok = false and
\* an error message; whatever is forwarded carries one of the six actions.
C19_OnlyClosedSetForwarded ==
    /\ \A i \in 1..Len(forwarded) :
          forwarded[i].action \in {JStr(sStart), JStr(sPause), JStr(sResume), JStr(sRestart),
                                   JStr(sKill), JStr(sRemove)}
    /\ (/\ request # Absent
        /\ submittedAction(request) \notin {JStr(sStart), JStr(sPause), JStr(sResume), JStr(sRestart),
                                             JStr(sKill), JStr(sRemove)})
         => (/\ forwarded = <<>>
             /\ reply # Absent
             /\ reply.ok = FALSE
             /\ isString(reply.error) /\ reply.error.s # <<>>)

\* a request for the action stash on task 9 has been answered
C19_Witness ==
    /\ request = Request(<<"9">>, Body(JStr(sStash)))
    /\ forwarded = <<>>
    /\ reply # Absent
    /\ reply.ok = FALSE
    /\ reply.status = 500

---------------------------------------------------------------------------
(* Claims about the log view                                               *)

\* how many line feeds a text holds
lineFeeds(text) == Cardinality({i \in 1..Len(text) : text[i] = "\n"})

\* the smaller and the larger of two numbers
minOf(a, b) == IF a <= b THEN a ELSE b
maxOf(a, b) == IF a >= b THEN a ELSE b

\* C21: the window holds the last min(N, L) parsed lines in their order, total is N and
\* offset is max(0, N - L), so that offset + i is the index of the i-th line shown.
C21_WindowKeepsTail ==
    /\ logWindow.total = Len(parsedLogLines)
    /\ Len(logWindow.lines) = minOf(Len(parsedLogLines), LogLimit)
    /\ logWindow.offset = maxOf(0, Len(parsedLogLines) - LogLimit)
    /\ \A i \in 1..Len(logWindow.lines) : logWindow.lines[i] = parsedLogLines[logWindow.offset + i]

\* a log of LogLimit + 2 lines whose last line is flagged is shown
C21_Witness ==
    /\ logWindow.total = LogLimit + 2
    /\ logWindow.offset = 2
    /\ Len(logWindow.lines) = LogLimit
    /\ logWindow.lines[LogLimit].malformed
    /\ ~logWindow.lines[1].malformed

\* the prefix of a line that starts with the shape of a timestamp
stampOf(line) == SubSeq(line, 1, stampEnd(line))

\* the entries stand for the lines of the text, one each and in order
oneEntryPerLine ==
    logTaskId # <<>> =>
       /\ Len(parsedLogLines) = lineFeeds(logText) + 1
       /\ \A i \in 1..Len(parsedLogLines) :
             \/ parsedLogLines[i].timestamp = Null /\ parsedLogLines[i].rest = splitLines(logText)[i]
             \/ /\ parsedLogLines[i].timestamp # Null
                /\ \E gap \in 0..Len(splitLines(logText)[i]) :
                      /\ \A k \in 1..gap : splitLines(logText)[i][stampEnd(splitLines(logText)[i]) + k]
                                             \in {" ", "\t", "\r"}
                      /\ splitLines(logText)[i]
                           = stampOf(splitLines(logText)[i])
                              \o SubSeq(splitLines(logText)[i],
                                        stampEnd(splitLines(logText)[i]) + 1,
                                        stampEnd(splitLines(logText)[i]) + gap)
                              \o parsedLogLines[i].rest

returnAfter(line, e) ==
    \E i \in (e + 1)..Len(line) :
       /\ line[i] = "\r"
       /\ \E k \in (e + 1)..(i - 1) : line[k] \notin {" ", "\t", "\r"}

---------------------------------------------------------------------------
(* The group aggregates: groupNames and groupStats, on the path that takes *)
(* the aggregates from the server and on the path that counts the rows.    *)

isLetter(k) == (k >= 65 /\ k <= 90) \/ (k >= 97 /\ k <= 122)

\* the primary weight of a character of a name of letters and digits: digits come
\* before letters, and a letter weighs the same in both cases
primaryOf(k) == IF isLetter(k) THEN 100 + charCodeAt(lowerOf(Printable[k - 31], k)) ELSE k

primary(s) == [i \in 1..Len(s) |-> primaryOf(charCodeAt(s[i]))]

RECURSIVE compareWeights(_, _)
compareWeights(a, b) ==
    IF a = <<>> THEN (IF b = <<>> THEN 0 ELSE -1)
    ELSE IF b = <<>> THEN 1
    ELSE IF a[1] # b[1] THEN (IF a[1] < b[1] THEN -1 ELSE 1)
    ELSE compareWeights(Tail(a), Tail(b))

\* the case level: at the first character that differs the lower case comes first
compareCase(a, b) ==
    IF a = b THEN 0
    ELSE IF charCodeAt(a[CHOOSE i \in 1..Len(a) : a[i] # b[i] /\ \A j \in 1..(i - 1) : a[j] = b[j]]) >= 97
    THEN -1 ELSE 1

\* a.localeCompare(b) for names of letters and digits
localeCompare(a, b) ==
    IF compareWeights(primary(a), primary(b)) # 0 THEN compareWeights(primary(a), primary(b))
    ELSE compareCase(a, b)

\* the comparator of the three sorts: "default" first, the rest by localeCompare
compareGroups(a, b) ==
    IF a = sDefault THEN -1 ELSE IF b = sDefault THEN 1 ELSE localeCompare(a, b)

RECURSIVE insertName(_, _)
insertName(sorted, x) ==
    IF sorted = <<>> THEN <<x>>
    ELSE IF compareGroups(sorted[Len(sorted)], x) <= 0 THEN Append(sorted, x)
    ELSE Append(insertName(SubSeq(sorted, 1, Len(sorted) - 1), x), sorted[Len(sorted)])

RECURSIVE sortNames(_)
\* .sort((a, b) => ...) over names that differ from one another
sortNames(names) ==
    IF names = <<>> THEN <<>>
    ELSE insertName(sortNames(SubSeq(names, 1, Len(names) - 1)), names[Len(names)])

\* groupStats that returns its rows in the order of the Map
sortGroups_none(entries) == entries

\* the rows in the order of their names
inOrder(entries, names) ==
    [k \in 1..Len(names) |-> entries[CHOOSE i \in 1..Len(entries) : entries[i].group = names[k]]]

\* .sort((a, b) => ...) over the rows of groupStats, one row for each name
sortGroups(entries) == inOrder(entries, sortNames([i \in 1..Len(entries) |-> entries[i].group]))

RECURSIVE addAll(_, _)
\* Set.prototype.add for each element of xs, in insertion order
addAll(names, xs) ==
    IF xs = <<>> THEN names
    ELSE addAll(IF \E i \in 1..Len(names) : names[i] = xs[1] THEN names ELSE Append(names, xs[1]), Tail(xs))

\* task.group ?? "default"
groupOf(row) == IF isNullish(row.group) THEN sDefault ELSE row.group.s

\* data.status?.groups
statusGroupsOf(d) == field(field(d.json, "status"), "groups")

declaredNames(groups) == IF truthy(groups) /\ groups.t = "obj" THEN objectKeys(groups) ELSE <<>>

\* the groupNames memo
groupNames(rows, d) ==
    sortNames(addAll(addAll(<<>>, [i \in 1..Len(rows) |-> groupOf(rows[i])]),
                     declaredNames(statusGroupsOf(d))))

sEmDash == <<"emdash">>

\* formatDuration once Math.floor(ms / 1000) is known
formatSeconds(seconds) ==
    IF seconds < 60 THEN decimal(seconds) \o <<"s">>
    ELSE IF seconds \div 60 < 60
    THEN decimal(seconds \div 60) \o <<"m", " ">> \o decimal(seconds % 60) \o <<"s">>
    ELSE decimal((seconds \div 60) \div 60) \o <<"h", " ">> \o decimal((seconds \div 60) % 60) \o <<"m">>

\* formatDuration(ms) for undefined or a whole number
formatDuration(ms) == IF ms = Absent THEN sEmDash ELSE formatSeconds(ms.n \div 1000)

\* typeof v === "number" ? v : null
numberOrNull(v) == IF isNumber(v) THEN v ELSE Null

\* statusGroups[group]?.parallel_tasks, as the zero rows take it
declaredParallel(groups, group) ==
    numberOrNull(field(IF truthy(groups) /\ groups.t = "obj" THEN get(groups, group) ELSE Absent,
                       "parallel_tasks"))

GroupRow(group, counts, durations, failedIds, avgDuration, stddevDuration, parallel) ==
    [group |-> group, total |-> counts[1], running |-> counts[2], queued |-> counts[3],
     paused |-> counts[4], done |-> counts[5], success |-> counts[6], failed |-> counts[7],
     durations |-> durations, failedIds |-> failedIds, avgDuration |-> avgDuration,
     stddevDuration |-> stddevDuration, parallel |-> parallel]

\* entry.f ?? 0
countOf(entry, f) == orElse(field(entry, f), JNum(0))

\* the row for one entry of stats.groups
serverRow(group, entry) ==
    GroupRow(group,
             <<countOf(entry, "total"), countOf(entry, "running"), countOf(entry, "queued"),
               countOf(entry, "paused"), countOf(entry, "done"), countOf(entry, "success"),
               countOf(entry, "failed")>>,
             <<>>,
             IF field(entry, "failed_ids").t = "arr" THEN field(entry, "failed_ids").a ELSE <<>>,
             formatDuration(orElse(field(entry, "avg_ms"), Absent)),
             formatDuration(orElse(field(entry, "stddev_ms"), Absent)),
             numberOrNull(field(entry, "parallel")))

\* the row of a group without tasks
zeroRow(group, parallel) ==
    GroupRow(group, <<JNum(0), JNum(0), JNum(0), JNum(0), JNum(0), JNum(0), JNum(0)>>,
             <<>>, <<>>, sEmDash, sEmDash, parallel)

\* Object.entries(stats.groups).map(...)
serverRows(groups) == [i \in 1..Len(objectKeys(groups)) |->
                          serverRow(objectKeys(groups)[i], get(groups, objectKeys(groups)[i]))]

\* a merge that adds a zero row for every name
missingNames_all(names, entries) == names

\* groupNames.forEach: the names that merged does not hold get a zero row
missingNames(names, entries) ==
    SelectSeq(names, LAMBDA g : \A i \in 1..Len(entries) : entries[i].group # g)

mergedRows(entries, missing, statusGroups) ==
    entries \o [i \in 1..Len(missing) |-> zeroRow(missing[i], declaredParallel(statusGroups, missing[i]))]

\* statsFromServer && typeof statsFromServer === "object" && "groups" in statsFromServer
fromServer(stats) == truthy(stats) /\ stats.t = "rec" /\ "groups" \in DOMAIN stats

\* a durationMs that counts a task without a valid start and end as over at once
durationMs_zero(start, end) == JNum(0)

\* durationMs(start, end) for strings; Absent stands for undefined
durationMs(start, end) ==
    IF ~truthy(start) \/ ~truthy(end) THEN Absent
    ELSE IF ~isString(start) \/ ~isString(end) THEN Absent
    ELSE IF DateParse(start.s) = Absent \/ DateParse(end.s) = Absent THEN Absent
    ELSE JNum(maxOf(0, (DateParse(end.s).days - DateParse(start.s).days) * 86400000
                        + DateParse(end.s).ms - DateParse(start.s).ms))

isDoneRow(row) == row.timing.state = "done"
isSuccessRow(row) == isDoneRow(row) /\ row.timing.result = JStr(sSuccess)

countWhere(rows, test(_)) == JNum(Len(SelectSeq(rows, test)))

RECURSIVE sumOf(_)
sumOf(values) == IF values = <<>> THEN 0 ELSE values[1] + sumOf(Tail(values))

\* Math.floor(avgMs / 1000): the durations are whole numbers
avgSeconds(durations) == sumOf(durations) \div (Len(durations) * 1000)

\* n times the sum of the squared deviations from the mean: n * sum(v^2) - sum(v)^2
deviation(durations) ==
    Len(durations) * sumOf([i \in 1..Len(durations) |-> durations[i] * durations[i]])
      - sumOf(durations) * sumOf(durations)

\* Math.floor(Math.sqrt(variance) / 1000), with variance = deviation / (n * (n - 1))
stddevSeconds(durations) ==
    CHOOSE s \in 0..(sumOf(durations) \div 1000 + 1) :
       /\ s * s * 1000000 * Len(durations) * (Len(durations) - 1) <= deviation(durations)
       /\ (s + 1) * (s + 1) * 1000000 * Len(durations) * (Len(durations) - 1) > deviation(durations)

\* the durations a group's rows contribute, in the order of the rows
durationsOf(rows) ==
    LET found == [i \in 1..Len(rows) |-> durationMs(rows[i].timing.start, rows[i].timing.end)]
        kept == SelectSeq(found, LAMBDA d : d # Absent)
    IN  [i \in 1..Len(kept) |-> kept[i].n]

\* entry.durations of a group: only the rows that are done are asked
localDurations(rows) == durationsOf(SelectSeq(rows, isDoneRow))

localRowOf(group, rows, durations, parallel) ==
    GroupRow(group,
             <<JNum(Len(rows)),
               countWhere(rows, LAMBDA r : r.timing.state = "running"),
               countWhere(rows, LAMBDA r : r.timing.state = "queued"),
               countWhere(rows, LAMBDA r : r.timing.state = "paused"),
               countWhere(rows, isDoneRow),
               countWhere(rows, isSuccessRow),
               countWhere(rows, LAMBDA r : isDoneRow(r) /\ ~isSuccessRow(r))>>,
             durations,
             [i \in 1..Len(SelectSeq(rows, LAMBDA r : isDoneRow(r) /\ ~isSuccessRow(r))) |->
                 SelectSeq(rows, LAMBDA r : isDoneRow(r) /\ ~isSuccessRow(r))[i].id],
             IF Len(durations) > 0 THEN formatSeconds(avgSeconds(durations)) ELSE sEmDash,
             IF Len(durations) > 1 THEN formatSeconds(stddevSeconds(durations)) ELSE sEmDash,
             parallel)

\* the row the second path builds for a group
localRow(group, rows, statusGroups) ==
    localRowOf(group, rows, localDurations(rows), declaredParallel(statusGroups, group))

localRows(names, rows, statusGroups) ==
    [i \in 1..Len(names) |->
        localRow(names[i], SelectSeq(rows, LAMBDA r : groupOf(r) = names[i]), statusGroups)]

\* the groupStats memo
groupStats(rows, d) ==
    IF fromServer(field(d.json, "stats"))
    THEN sortGroups(mergedRows(serverRows(field(d.json, "stats").groups),
                               missingNames(groupNames(rows, d), serverRows(field(d.json, "stats").groups)),
                               orElse(statusGroupsOf(d), JObj(<<>>))))
    ELSE sortGroups(localRows(groupNames(rows, d), rows, orElse(statusGroupsOf(d), JObj(<<>>))))

\* the instants the daemon reports
sAt(clock) == <<"2", "0", "2", "4", "-", "0", "1", "-", "0", "2", "T">> \o clock \o <<"Z">>
GroupStart == JStr(sAt(<<"0", "3", ":", "0", "4", ":", "0", "5">>))
GroupEnd2s == JStr(sAt(<<"0", "3", ":", "0", "4", ":", "0", "7">>))
GroupEnd7s == JStr(sAt(<<"0", "3", ":", "0", "4", ":", "1", "2">>))
GroupEndLong == JStr(sAt(<<"0", "4", ":", "0", "5", ":", "0", "6">>))

GroupRunning == Variant(sRunning, Detail(GroupStart, Absent, Absent, Absent))
GroupQueued == Variant(sQueued, Detail(Absent, Absent, GroupStart, Absent))
GroupPaused == Variant(sPaused, Detail(GroupStart, Absent, Absent, Absent))
GroupDoneOk == Variant(sDone, Detail(GroupStart, GroupEnd2s, Absent, JStr(sSuccess)))
GroupDoneFailed == Variant(sDone, Detail(GroupStart, GroupEnd7s, Absent, JStr(sFailed)))
GroupDoneNoEnd == Variant(sDone, Detail(GroupStart, JStr(<<"x">>), Absent, JStr(sSuccess)))
GroupDoneKilled == Variant(sDone, Detail(GroupStart, GroupEnd7s, Absent, Variant(sKilled, Null)))
GroupDoneLong == Variant(sDone, Detail(GroupStart, GroupEndLong, Absent, JStr(sSuccess)))

GroupTask(status, group) == RawTask(status, group, JStr(<<"a">>), Absent, Absent, Absent)

\* the task maps of the snapshots: three tasks in up to three groups, one long task
\* in a group of its own, and no task at all
GroupTaskMaps ==
    {JObj(<<KV(<<"1">>, GroupTask(first, Absent)),
            KV(<<"2">>, GroupTask(second, group)),
            KV(<<"3">>, GroupTask(GroupDoneKilled, JStr(<<"B">>)))>>) :
        first \in {GroupRunning, GroupQueued, GroupPaused, GroupDoneOk},
        second \in {GroupDoneFailed, GroupDoneNoEnd},
        group \in {Absent, JStr(<<"b">>)}}
    \cup {JObj(<<KV(<<"1">>, GroupTask(GroupDoneLong, JStr(<<"a">>)))>>), JObj(<<>>)}

\* status.groups: the groups the daemon declares
GroupMaps ==
    {JObj(<<KV(<<"b">>, Group(JNum(2), JStr(sRunning))), KV(sDefault, Group(JNum(1), JStr(sRunning)))>>),
     JObj(<<KV(<<"c">>, Group(JStr(<<"x">>), JStr(sRunning))), KV(<<"C">>, Group(Absent, Absent)),
            KV(<<"B">>, Group(JNum(3), JStr(sPaused)))>>)}

ServerEntry(total, running, queued, paused, done, success, failed, failed_ids, avg_ms, stddev_ms, parallel) ==
    [t |-> "rec", total |-> total, running |-> running, queued |-> queued, paused |-> paused,
     done |-> done, success |-> success, failed |-> failed, failed_ids |-> failed_ids,
     avg_ms |-> avg_ms, stddev_ms |-> stddev_ms, parallel |-> parallel]

\* data.stats: nothing, or the aggregates of the server
GroupStatsSets ==
    {Absent,
     [t |-> "rec",
      groups |-> JObj(<<KV(<<"z">>, [t |-> "rec", total |-> JNum(1)]),
                        KV(sDefault, ServerEntry(JNum(5), JNum(1), JNum(1), JNum(1), JNum(2), JNum(1), JNum(1),
                                                 JArr(<<<<"4">>>>), JNum(61000), JNum(500), JNum(2)))>>)],
     [t |-> "rec",
      groups |-> JObj(<<KV(<<"b">>, ServerEntry(JNum(2), Absent, Null, JNum(0), JNum(2), JNum(2), JNum(0),
                                               Absent, JNum(3661000), Null, JStr(<<"2">>))),
                        KV(<<"A">>, [t |-> "rec"])>>)]}

GroupResponses ==
    {Response(JBool(TRUE), StatusOf(taskMap, groupMap), stats, Absent, Absent, Absent) :
        taskMap \in GroupTaskMaps, groupMap \in GroupMaps, stats \in GroupStatsSets}

GroupsNext == \E json \in GroupResponses : DecodeSnapshot(json)

SpecGroups == Init /\ [][GroupsNext]_vars

---------------------------------------------------------------------------
(* Claims about the group aggregates                                       *)

groupsIn(rows) == {rows[i].group : i \in 1..Len(rows)}

\* the groups that the snapshot declares or that a task is in
knownGroups(rows, d) ==
    {groupOf(rows[i]) : i \in 1..Len(rows)}
      \cup {declaredNames(statusGroupsOf(d))[i] : i \in 1..Len(declaredNames(statusGroupsOf(d)))}

noGroupTwice(rows) == \A i, j \in 1..Len(rows) : rows[i].group = rows[j].group => i = j

hasCounts(row, entry) ==
    /\ row.total = orElse(field(entry, "total"), JNum(0))
    /\ row.running = orElse(field(entry, "running"), JNum(0))
    /\ row.queued = orElse(field(entry, "queued"), JNum(0))
    /\ row.paused = orElse(field(entry, "paused"), JNum(0))
    /\ row.done = orElse(field(entry, "done"), JNum(0))
    /\ row.success = orElse(field(entry, "success"), JNum(0))
    /\ row.failed = orElse(field(entry, "failed"), JNum(0))

isZeroRow(row) ==
    \A f \in {"total", "running", "queued", "paused", "done", "success", "failed"} : row[f] = JNum(0)

serverPathHolds(rows, served, known, declared) ==
    /\ noGroupTwice(rows)
    /\ groupsIn(rows) = {objectKeys(served)[i] : i \in 1..Len(objectKeys(served))} \cup known
    /\ \A i \in 1..Len(rows) :
          IF hasKey(served, rows[i].group)
          THEN hasCounts(rows[i], get(served, rows[i].group))
          ELSE /\ isZeroRow(rows[i])
               /\ IF hasKey(declared, rows[i].group)
                     /\ isNumber(field(get(declared, rows[i].group), "parallel_tasks"))
                  THEN rows[i].parallel = field(get(declared, rows[i].group), "parallel_tasks")
                  ELSE rows[i].parallel = Null

\* C23: when the response carries the aggregates of the server, groupStats has one
\* row for each group of the server with the counts of the server, a row of zeros
\* (with the declared parallelism, when one is declared) for each group that is
\* declared or observed and that the server's aggregates lack, and no group twice.
C23_ServerAggregatesMerged ==
    fromServer(field(data.json, "stats")) =>
       serverPathHolds(groupStats(tasks, data), field(data.json, "stats").groups,
                       knownGroups(tasks, data), orElse(statusGroupsOf(data), JObj(<<>>)))

\* the server reports default and z; tasks are in default, b and B; b is declared with
\* two parallel tasks
C23_Witness ==
    /\ fromServer(field(data.json, "stats"))
    /\ groupsIn(groupStats(tasks, data)) = {sDefault, <<"z">>, <<"b">>, <<"B">>}
    /\ \E i \in 1..4 :
          /\ groupStats(tasks, data)[i].group = sDefault
          /\ groupStats(tasks, data)[i].total = JNum(5)
          /\ groupStats(tasks, data)[i].parallel = JNum(2)
    /\ \E i \in 1..4 :
          /\ groupStats(tasks, data)[i].group = <<"b">>
          /\ groupStats(tasks, data)[i].total = JNum(0)
          /\ groupStats(tasks, data)[i].parallel = JNum(2)
    /\ \E i \in 1..4 :
          /\ groupStats(tasks, data)[i].group = <<"B">>
          /\ groupStats(tasks, data)[i].parallel = Null

membersOf(rows, group) == SelectSeq(rows, LAMBDA r : groupOf(r) = group)

stateCount(members, state) == Cardinality({i \in 1..Len(members) : members[i].timing.state = state})

\* whether a value is a string that is a valid instant
parseable(v) == isString(v) /\ v.s # <<>> /\ DateParse(v.s) # Absent

failedMembers(members) ==
    {i \in 1..Len(members) : members[i].timing.state = "done" /\ members[i].timing.result # JStr(sSuccess)}

timedMembers(members) ==
    {i \in 1..Len(members) :
        /\ members[i].timing.state = "done"
        /\ parseable(members[i].timing.start)
        /\ parseable(members[i].timing.end)}

localPathHolds(row, members) ==
    /\ row.total = JNum(Len(members))
    /\ row.running = JNum(stateCount(members, "running"))
    /\ row.queued = JNum(stateCount(members, "queued"))
    /\ row.paused = JNum(stateCount(members, "paused"))
    /\ row.done = JNum(stateCount(members, "done"))
    /\ row.done.n = row.success.n + row.failed.n
    /\ Len(row.failedIds) = row.failed.n
    /\ row.failed.n = Cardinality(failedMembers(members))
    /\ {row.failedIds[i] : i \in 1..Len(row.failedIds)} = {members[i].id : i \in failedMembers(members)}
    /\ Len(row.durations) = Cardinality(timedMembers(members))
    /\ Len(row.durations) < 2 => row.stddevDuration = sEmDash

\* C24: when the rows are counted locally, every row of groupStats has the number of
\* its group's tasks as total, the numbers of its running, queued, paused and done
\* tasks, done = success + failed, exactly `failed` failed ids, the ids of the done
\* tasks whose result is not Success, one duration for each done task whose start and
\* end both parse and for no other task, and no deviation with fewer than two durations.
C24_LocalAggregatesCount ==
    ~fromServer(field(data.json, "stats")) =>
       \A i \in 1..Len(groupStats(tasks, data)) :
          localPathHolds(groupStats(tasks, data)[i], membersOf(tasks, groupStats(tasks, data)[i].group))

\* default holds a successful task of 2 s and a failed one of 7 s; B holds a killed task
C24_Witness ==
    /\ ~fromServer(field(data.json, "stats"))
    /\ \E i \in 1..Len(groupStats(tasks, data)) :
          /\ groupStats(tasks, data)[i].group = sDefault
          /\ groupStats(tasks, data)[i].total = JNum(2)
          /\ groupStats(tasks, data)[i].success = JNum(1)
          /\ groupStats(tasks, data)[i].failed = JNum(1)
          /\ groupStats(tasks, data)[i].failedIds = <<<<"2">>>>
          /\ groupStats(tasks, data)[i].durations = <<2000, 7000>>
          /\ groupStats(tasks, data)[i].avgDuration = <<"4", "s">>
          /\ groupStats(tasks, data)[i].stddevDuration = <<"3", "s">>
    /\ \E i \in 1..Len(groupStats(tasks, data)) :
          /\ groupStats(tasks, data)[i].group = <<"B">>
          /\ groupStats(tasks, data)[i].failedIds = <<<<"3">>>>
          /\ groupStats(tasks, data)[i].stddevDuration = sEmDash

defaultFirst(rows) == \A i \in 1..Len(rows) : rows[i].group = sDefault => i = 1

othersInOrder(rows) ==
    \A i, j \in 1..Len(rows) :
       (i < j /\ rows[i].group # sDefault /\ rows[j].group # sDefault)
          => localeCompare(rows[i].group, rows[j].group) < 0

---------------------------------------------------------------------------
(* The task table: the filter and sort pipeline of filteredTasks, the row  *)
(* cap and the pages of displayedTasks, and the effect that clamps the     *)
(* page index.  The memos are functions of the state; the deferred values  *)
(* are the values themselves once the page has rendered.                   *)

isSpace(c) == c \in {" ", "\t", "\n", "\r"}

RECURSIVE trimStart(_)
trimStart(s) == IF s # <<>> /\ isSpace(s[1]) THEN trimStart(Tail(s)) ELSE s

RECURSIVE trimEnd(_)
trimEnd(s) == IF s # <<>> /\ isSpace(s[Len(s)]) THEN trimEnd(SubSeq(s, 1, Len(s) - 1)) ELSE s

\* String.prototype.trim
trim(s) == trimEnd(trimStart(s))

sAll == <<"a", "l", "l">>
sAsc == <<"a", "s", "c">>
sDesc == <<"d", "e", "s", "c">>
sId == <<"i", "d">>
sStatus == <<"s", "t", "a", "t", "u", "s">>
sCommand == <<"c", "o", "m", "m", "a", "n", "d">>
sGroup == <<"g", "r", "o", "u", "p">>

\* deferredSearch.trim().toLowerCase()
queryOf(text) == toLowerCase(trim(text))

\* row.idLower, row.commandLower and row.groupLower, as normalizeTasks sets them
idLower(row) == toLowerCase(row.id)
commandLower(row) == toLowerCase(row.command)
groupLower(row) == toLowerCase(groupOf(row))

matchesSearch(row, query) ==
    \/ Len(query) = 0
    \/ includes(idLower(row), query)
    \/ includes(commandLower(row), query)
    \/ includes(groupLower(row), query)

matchesStatus(row, status) == status = sAll \/ row.status = status

\* a group filter that looks for the group as the daemon sent it
matchesGroup_raw(row, groups) ==
    groups = {} \/ (IF isNullish(row.group) THEN <<>> ELSE row.group.s) \in groups

matchesGroup(row, groups) == groups = {} \/ groupOf(row) \in groups

matchesQuick(row, quick) == quick = {} \/ row.filterKey \in quick

\* tasks.filter(...)
filterRows(rows, text, status, groups, quick) ==
    SelectSeq(rows, LAMBDA row : /\ matchesSearch(row, queryOf(text))
                                 /\ matchesStatus(row, status)
                                 /\ matchesGroup(row, groups)
                                 /\ matchesQuick(row, quick))

\* a.group ?? ""
groupOrEmpty(row) == IF isNullish(row.group) THEN <<>> ELSE row.group.s

\* value in the comparator of sorted.sort
keyOrder(a, b, sortKey) ==
    IF sortKey = sStatus THEN localeCompare(a.status, b.status)
    ELSE IF sortKey = sCommand THEN localeCompare(a.command, b.command)
    ELSE IF sortKey = sGroup THEN localeCompare(groupOrEmpty(a), groupOrEmpty(b))
    ELSE 0

\* the comparator of sorted.sort
compareBy(a, b, sortKey, sortDir) == IF sortDir = sDesc THEN 0 - keyOrder(a, b, sortKey) ELSE keyOrder(a, b, sortKey)

RECURSIVE insertBy(_, _, _, _)
insertBy(sorted, row, sortKey, sortDir) ==
    IF sorted = <<>> THEN <<row>>
    ELSE IF compareBy(sorted[Len(sorted)], row, sortKey, sortDir) <= 0 THEN Append(sorted, row)
    ELSE Append(insertBy(SubSeq(sorted, 1, Len(sorted) - 1), row, sortKey, sortDir), sorted[Len(sorted)])

\* a pipeline that leaves the rows as the filter returned them
sortedBy_none(rows, sortKey, sortDir) == rows

RECURSIVE sortedBy(_, _, _)
\* sorted.sort(...): a stable sort
sortedBy(rows, sortKey, sortDir) ==
    IF rows = <<>> THEN <<>>
    ELSE insertBy(sortedBy(SubSeq(rows, 1, Len(rows) - 1), sortKey, sortDir), rows[Len(rows)], sortKey, sortDir)

\* [...filtered].reverse()
reverse(rows) == [i \in 1..Len(rows) |-> rows[Len(rows) + 1 - i]]

\* the second half of the filteredTasks memo
sortFiltered(filtered, sortKey, sortDir) ==
    IF sortKey = sId
    THEN IF sortDir = sAsc THEN filtered ELSE reverse(filtered)
    ELSE sortedBy(filtered, sortKey, sortDir)

\* the rows that pass the filters, before they are sorted
filtered == filterRows(tasks, search, statusFilter, groupFilters, quickFilters)

\* the filteredTasks memo
filteredTasks ==
    CHOOSE out \in {sortFiltered(rows, pieceAt(split(sortBy, "-"), 1), pieceAt(split(sortBy, "-"), 2)) :
                       rows \in {filtered}} : TRUE

maxRows == 500

\* filteredTasks.length > maxRows ? filteredTasks.slice(0, maxRows) : filteredTasks
autoLimited(rows) == IF Len(rows) > maxRows THEN SubSeq(rows, 1, maxRows) ELSE rows

\* Math.ceil(a / b) for whole numbers, b > 0
ceilDiv(a, b) == (a + b - 1) \div b

\* the pageCount memo
pageCountOf(mode, count, size) == IF mode # "paginate" THEN 1 ELSE maxOf(1, ceilDiv(count, size))

pageCount == pageCountOf(renderMode, Len(filteredTasks), pageSize)

\* Array.prototype.slice(start, end) for 0 <= start <= end
slice(rows, start, end) == SubSeq(rows, start + 1, minOf(end, Len(rows)))

\* a table that always shows the first page
displayedOf_firstPage(rows, mode, index, size) ==
    IF mode = "paginate" THEN slice(rows, 0, size) ELSE rows

\* the displayedTasks memo
displayedOf(rows, mode, index, size) ==
    IF mode = "paginate" THEN slice(rows, index * size, index * size + size) ELSE autoLimited(rows)

displayedTasks ==
    CHOOSE out \in {displayedOf(rows, renderMode, pageIndex, pageSize) : rows \in {filteredTasks}} : TRUE

\* an effect that leaves the page index alone
clampPage_never(mode, count, index) == index

\* the body of the effect on [renderMode, pageCount]
clampPage(mode, count, index) ==
    IF mode # "paginate" THEN 0 ELSE minOf(index, maxOf(0, count - 1))

\* the page index after a render in which index was set: the effect runs when one of
\* its dependencies has changed
pageEffect(index) ==
    \E before \in {pageCount}, after \in {pageCount'}, set \in {index} :
       pageIndex' = IF renderMode' = renderMode /\ after = before
                    THEN set
                    ELSE clampPage(renderMode', after, set)

tableRest == <<mounted, isVisible, loading, loadInFlightRef, lastDigestRef, outstanding,
               lastCall, lastCaller, timer, lastSettle, dg, dispatcherVars, endpointVars, logVars, formVars>>

\* the debounced setSearch(searchInput)
SetSearch(text) ==
    /\ search' = text
    /\ UNCHANGED <<statusFilter, groupFilters, sortBy, quickFilters, renderMode, pageSize>>
    /\ UNCHANGED <<data, tasks, taskCacheRef, nextRef, issued>>
    /\ pageEffect(pageIndex)
    /\ UNCHANGED tableRest

\* the status select
SetStatusFilter(status) ==
    /\ statusFilter' = status
    /\ UNCHANGED <<search, groupFilters, sortBy, quickFilters, renderMode, pageSize>>
    /\ UNCHANGED <<data, tasks, taskCacheRef, nextRef, issued>>
    /\ pageEffect(pageIndex)
    /\ UNCHANGED tableRest

\* a group chip
ToggleGroupFilter(group) ==
    /\ groupFilters' = IF group \in groupFilters THEN groupFilters \ {group} ELSE groupFilters \cup {group}
    /\ UNCHANGED <<search, statusFilter, sortBy, quickFilters, renderMode, pageSize>>
    /\ UNCHANGED <<data, tasks, taskCacheRef, nextRef, issued>>
    /\ pageEffect(pageIndex)
    /\ UNCHANGED tableRest

\* a quick-filter button
ToggleQuickFilter(key) ==
    /\ quickFilters' = IF key \in quickFilters THEN quickFilters \ {key} ELSE quickFilters \cup {key}
    /\ UNCHANGED <<search, statusFilter, groupFilters, sortBy, renderMode, pageSize>>
    /\ UNCHANGED <<data, tasks, taskCacheRef, nextRef, issued>>
    /\ pageEffect(pageIndex)
    /\ UNCHANGED tableRest

\* the sort select
SetSort(option) ==
    /\ sortBy' = option
    /\ UNCHANGED <<search, statusFilter, groupFilters, quickFilters, renderMode, pageSize>>
    /\ UNCHANGED <<data, tasks, taskCacheRef, nextRef, issued>>
    /\ pageEffect(pageIndex)
    /\ UNCHANGED tableRest

\* the render-mode select
SetRenderMode(mode) ==
    /\ renderMode' = mode
    /\ UNCHANGED <<search, statusFilter, groupFilters, sortBy, quickFilters, pageSize>>
    /\ UNCHANGED <<data, tasks, taskCacheRef, nextRef, issued>>
    /\ pageEffect(pageIndex)
    /\ UNCHANGED tableRest

\* the page-size input, shown in paginate mode, when next is typed into it
SetPageSize(next) ==
    /\ renderMode = "paginate"
    /\ pageSize' = IF next > 0 THEN maxOf(25, minOf(1000, next)) ELSE pageSize
    /\ UNCHANGED <<search, statusFilter, groupFilters, sortBy, quickFilters, renderMode>>
    /\ UNCHANGED <<data, tasks, taskCacheRef, nextRef, issued>>
    /\ pageEffect(pageIndex)
    /\ UNCHANGED tableRest

\* the Prev button
PrevPage ==
    /\ renderMode = "paginate"
    /\ pageIndex # 0
    /\ UNCHANGED <<search, statusFilter, groupFilters, sortBy, quickFilters, renderMode, pageSize>>
    /\ UNCHANGED <<data, tasks, taskCacheRef, nextRef, issued>>
    /\ pageEffect(maxOf(0, pageIndex - 1))
    /\ UNCHANGED tableRest

\* the Next button
NextPage ==
    /\ renderMode = "paginate"
    /\ UNCHANGED <<search, statusFilter, groupFilters, sortBy, quickFilters, renderMode, pageSize>>
    /\ UNCHANGED <<data, tasks, taskCacheRef, nextRef, issued>>
    /\ \E count \in {pageCount} :
          /\ pageIndex < count - 1
          /\ pageEffect(minOf(count - 1, pageIndex + 1))
    /\ UNCHANGED tableRest

\* startTransition(() => setData(json)) while the table is shown
TableSnapshot(json, bound) ==
    /\ issued < bound
    /\ issued' = issued + 1
    /\ setData([serial |-> issued + 1, json |-> json])
    /\ UNCHANGED <<search, statusFilter, groupFilters, sortBy, quickFilters, renderMode, pageSize>>
    /\ pageEffect(pageIndex)
    /\ UNCHANGED tableRest

\* the snapshot of the filter model: four tasks, in the order of their ids
ViewTask(status, group, command) == RawTask(status, group, JStr(command), Absent, Absent, Absent)

ViewResponse ==
    Response(JBool(TRUE),
             StatusOf(JObj(<<KV(<<"1">>, ViewTask(GroupRunning, Absent, <<"b", "A">>)),
                             KV(<<"2">>, ViewTask(GroupDoneOk, JStr(<<"g">>), <<"b">>)),
                             KV(<<"3">>, ViewTask(GroupDoneFailed, JStr(<<"G">>), <<"a", "b">>)),
                             KV(<<"1", "0">>, ViewTask(GroupQueued, JStr(<<"g">>), <<"B">>))>>),
                      PollGroups),
             Absent, Absent, Absent, Absent)

ViewSearches == {<<>>, <<" ", "A", "\t">>, <<"D", "E", "F">>, <<"1">>}
ViewStatuses == {sAll, sDone, sFailed}
ViewGroups == {sDefault, <<"g">>}
ViewQuick == {"failed"}
ViewSorts == {key \o <<"-">> \o dir : key \in {sId, sStatus, sCommand, sGroup}, dir \in {sAsc, sDesc}}

ViewNext ==
    \/ TableSnapshot(ViewResponse, 1)
    \/ \E text \in ViewSearches : SetSearch(text)
    \/ \E status \in ViewStatuses : SetStatusFilter(status)
    \/ \E group \in ViewGroups : ToggleGroupFilter(group)
    \/ \E key \in ViewQuick : ToggleQuickFilter(key)
    \/ \E option \in ViewSorts : SetSort(option)

SpecView == Init /\ [][ViewNext]_vars

---------------------------------------------------------------------------
(* Claims about the filter and sort pipeline                               *)

idsOf(rows) == {rows[i].id : i \in 1..Len(rows)}

\* the search text without the blanks around it, in lower case
needle == toLowerCase(trim(search))

searchAccepts(row) ==
    \/ needle = <<>>
    \/ includes(toLowerCase(row.id), needle)
    \/ includes(toLowerCase(row.command), needle)
    \/ includes(toLowerCase(IF isNullish(row.group) THEN sDefault ELSE row.group.s), needle)

statusAccepts(row) == statusFilter = sAll \/ statusFilter = row.status

groupAccepts(row) ==
    groupFilters = {} \/ (IF isNullish(row.group) THEN sDefault ELSE row.group.s) \in groupFilters

quickAccepts(row) == quickFilters = {} \/ row.filterKey \in quickFilters

\* C29: a row is among the filtered rows exactly when the search, the status filter,
\* the group filter and the quick filter all accept it.
C29_FilteredIffAllAccept ==
    /\ idsOf(filteredTasks) \subseteq idsOf(tasks)
    /\ \A i \in 1..Len(tasks) :
          tasks[i].id \in idsOf(filteredTasks)
             <=> (/\ searchAccepts(tasks[i])
                  /\ statusAccepts(tasks[i])
                  /\ groupAccepts(tasks[i])
                  /\ quickAccepts(tasks[i]))

\* the search DEF, the group filter {default} and the status filter all leave the one
\* task without a group, out of four
C29_Witness ==
    /\ Len(tasks) = 4
    /\ search = <<"D", "E", "F">>
    /\ groupFilters = {sDefault}
    /\ statusFilter = sAll
    /\ quickFilters = {}
    /\ idsOf(filteredTasks) = {<<"1">>}

\* the quick filter failed and the status filter Failed leave the failed task
C29_WitnessQuick ==
    /\ Len(tasks) = 4
    /\ search = <<" ", "A", "\t">>
    /\ groupFilters = {}
    /\ statusFilter = sFailed
    /\ quickFilters = {"failed"}
    /\ idsOf(filteredTasks) = {<<"3">>}

sortKey == pieceAt(split(sortBy, "-"), 1)
sortDir == pieceAt(split(sortBy, "-"), 2)

\* the text a row is sorted by
sortText(row) ==
    IF sortKey = sStatus THEN row.status
    ELSE IF sortKey = sCommand THEN row.command
    ELSE IF isNullish(row.group) THEN <<>> ELSE row.group.s

isPermutation(a, b) ==
    /\ Len(a) = Len(b)
    /\ \E p \in [1..Len(a) -> 1..Len(a)] :
          /\ \A i, j \in 1..Len(a) : p[i] = p[j] => i = j
          /\ \A i \in 1..Len(a) : a[i] = b[p[i]]

\* C28: sorted by id ascending the filtered rows come as the reconciler gave them; by
\* id descending they come in exactly the reverse order; by another key they are a
\* permutation of the filtered rows in the order of that key, ascending or descending.
C28_SortFollowsKey ==
    IF sortKey = sId
    THEN IF sortDir = sAsc
         THEN filteredTasks = filtered
         ELSE /\ Len(filteredTasks) = Len(filtered)
              /\ \A i \in 1..Len(filtered) : filteredTasks[i] = filtered[Len(filtered) + 1 - i]
    ELSE /\ isPermutation(filteredTasks, filtered)
         /\ \A i, j \in 1..Len(filteredTasks) :
               i < j => IF sortDir = sDesc
                        THEN localeCompare(sortText(filteredTasks[i]), sortText(filteredTasks[j])) >= 0
                        ELSE localeCompare(sortText(filteredTasks[i]), sortText(filteredTasks[j])) <= 0

\* four rows sorted by command, descending: bA, B, b, ab
C28_Witness ==
    /\ sortBy = sCommand \o <<"-">> \o sDesc
    /\ [i \in 1..Len(filteredTasks) |-> filteredTasks[i].id] = <<<<"1">>, <<"1", "0">>, <<"2">>, <<"3">>>>

\* four rows sorted by id, descending
C28_WitnessReverse ==
    /\ sortBy = sId \o <<"-">> \o sDesc
    /\ [i \in 1..Len(filteredTasks) |-> filteredTasks[i].id] = <<<<"1", "0">>, <<"3">>, <<"2">>, <<"1">>>>

\* the snapshots the model lets the table receive
MaxTableSnapshots == 2

\* how many rows the long snapshot has beyond the cap of the auto mode
ExtraRows == 1

\* the tasks with the ids first..last: those with an odd id run, the others wait
tableTasks(first, last) ==
    [i \in 1..(last - first + 1) |->
        KV(decimal(first + i - 1),
           ViewTask(IF (first + i - 1) % 2 = 1 THEN GroupRunning ELSE GroupQueued, Absent, <<"a">>))]

TableResponse(count) ==
    Response(JBool(TRUE), StatusOf(JObj(tableTasks(0, count - 1)), PollGroups), Absent, Absent, Absent, Absent)

\* a snapshot longer than the cap, and one of a page and a bit
TableResponses == {TableResponse(maxRows + ExtraRows), TableResponse(30)}

\* what is typed into the page-size input
TypedSizes == {0, 10, 300, 2000}

PagesNext ==
    \/ \E json \in TableResponses : TableSnapshot(json, MaxTableSnapshots)
    \/ \E mode \in {"auto", "paginate"} : SetRenderMode(mode)
    \/ \E next \in TypedSizes : SetPageSize(next)
    \/ ToggleQuickFilter("running")
    \/ PrevPage
    \/ NextPage

SpecPages == Init /\ [][PagesNext]_vars

---------------------------------------------------------------------------
(* Claims about the pages of the table                                     *)

\* C26: after every switch of the render mode, change of the page size, of a filter
\* or of the snapshot and every click on Prev or Next, once the effect has run, the
\* page index is 0 in auto mode and lies in 0..pageCount - 1 in paginate mode, where
\* pageCount is max(1, ceil(filtered rows / pageSize)).
C26_PageIndexInBounds ==
    IF renderMode = "paginate"
    THEN \E pages \in {pageCount}, rows \in {Len(filteredTasks)} :
            /\ 0 <= pageIndex
            /\ pageIndex <= pages - 1
            /\ pages >= 1
            /\ (pages - 1) * pageSize < maxOf(1, rows)
            /\ rows <= pages * pageSize
    ELSE pageIndex = 0

\* the last of three pages of 200 rows is shown
C26_Witness ==
    /\ renderMode = "paginate"
    /\ pageSize = 200
    /\ pageIndex = 2
    /\ Len(tasks) = maxRows + ExtraRows
    /\ pageCount = 3

\* the page index was clamped: the rows fill one page of 25 and a second page in part
C26_WitnessClamped ==
    /\ renderMode = "paginate"
    /\ pageSize = 25
    /\ pageIndex = 1
    /\ data.serial = 2
    /\ Len(tasks) = 30
    /\ quickFilters = {}

\* whether shown is the part of rows that starts after the first `start` rows
partFrom(shown, rows, start) ==
    /\ start + Len(shown) <= Len(rows)
    /\ \A i \in 1..Len(shown) : shown[i] = rows[start + i]

\* C27: in auto mode the rows shown are the first min(n, 500) of the n filtered rows;
\* in paginate mode they are the filtered rows from pageIndex * pageSize on, pageSize
\* of them at most; in both modes they are consecutive filtered rows in their order.
C27_DisplayedIsBoundedPart ==
    \E shown \in {displayedTasks}, rows \in {filteredTasks} :
       IF renderMode = "paginate"
       THEN /\ partFrom(shown, rows, pageIndex * pageSize)
            /\ Len(shown) = minOf(pageSize, Len(rows) - pageIndex * pageSize)
       ELSE /\ partFrom(shown, rows, 0)
            /\ Len(shown) = minOf(Len(rows), 500)

\* auto mode hides the rows beyond the cap
C27_Witness ==
    /\ renderMode = "auto"
    /\ Len(tasks) = maxRows + ExtraRows
    /\ quickFilters = {}
    /\ sortBy = sId \o <<"-">> \o sAsc
    /\ \E shown \in {displayedTasks} : Len(shown) = 500 /\ shown[500].id = <<"4", "9", "9">>

\* the third page of 200 rows holds what is left
C27_WitnessPage ==
    /\ renderMode = "paginate"
    /\ pageSize = 200
    /\ pageIndex = 2
    /\ Len(tasks) = maxRows + ExtraRows
    /\ quickFilters = {}
    /\ sortBy = sId \o <<"-">> \o sAsc
    /\ \E shown \in {displayedTasks} : Len(shown) = 100 + ExtraRows /\ shown[1].id = <<"4", "0", "0">>


---------------------------------------------------------------------------
(* Claims about polling and visibility                                     *)

\* a step in which the interval timer sends a status request
timerRequest == issued' = issued + 1 /\ lastCaller' = "timer"

\* a visibilitychange to visible, and the render that follows it
becomesVisible == ~isVisible /\ isVisible'

C30_WitnessHidden ==
    /\ mounted
    /\ ~isVisible
    /\ issued = 1
    /\ outstanding = 0
    /\ lastCaller = "effect"

---------------------------------------------------------------------------
(* The refresh input: Number(value), and the period of the poll timer      *)

\* Math.max(250, ...) of the onChange handler
MinPollMs == 250

NaN == [t |-> "nan"]
Infinite(negative) == [t |-> "inf", negative |-> negative]
\* the number digits * 10^exponent, with its sign
Decimal(negative, digits, exponent) ==
    [t |-> "dec", negative |-> negative, digits |-> digits, exponent |-> exponent]

sInfinity == <<"I", "n", "f", "i", "n", "i", "t", "y">>

isSign(c) == c \in {"+", "-"}

allDigits(s) == \A i \in 1..Len(s) : isDigit(s[i])

RECURSIVE stripZeros(_)
\* a run of digits without its leading zeros
stripZeros(s) == IF s # <<>> /\ s[1] = "0" THEN stripZeros(Tail(s)) ELSE s

\* the index of the first character of s that is c, or Len(s) + 1
indexOf(s, c) ==
    IF \E i \in 1..Len(s) : s[i] = c
    THEN CHOOSE i \in 1..Len(s) : s[i] = c /\ \A j \in 1..(i - 1) : s[j] # c
    ELSE Len(s) + 1

\* ExponentPart: e or E, an optional sign and at least one digit; the empty string is
\* no exponent part
exponentOk(s) ==
    \/ s = <<>>
    \/ /\ Len(s) >= 2
       /\ s[1] \in {"e", "E"}
       /\ LET rest == IF isSign(s[2]) THEN SubSeq(s, 3, Len(s)) ELSE SubSeq(s, 2, Len(s))
          IN  rest # <<>> /\ allDigits(rest)

exponentValue(s) ==
    IF s = <<>> THEN 0
    ELSE IF s[2] = "-" THEN 0 - digitsValue(SubSeq(s, 3, Len(s)))
    ELSE IF s[2] = "+" THEN digitsValue(SubSeq(s, 3, Len(s)))
    ELSE digitsValue(SubSeq(s, 2, Len(s)))

\* the end of the mantissa: the index before the first e or E
mantissaEnd(s) == minOf(indexOf(s, "e"), indexOf(s, "E")) - 1

\* StrUnsignedDecimalLiteral without Infinity: digits with an optional point, or a
\* point and digits, then an optional exponent part
unsignedOk(s) ==
    LET mantissa == SubSeq(s, 1, mantissaEnd(s))
        whole == SubSeq(mantissa, 1, indexOf(mantissa, ".") - 1)
        fraction == SubSeq(mantissa, indexOf(mantissa, ".") + 1, Len(mantissa))
    IN  /\ allDigits(whole)
        /\ allDigits(fraction)
        /\ whole \o fraction # <<>>
        /\ exponentOk(SubSeq(s, mantissaEnd(s) + 1, Len(s)))

\* the value of a literal that unsignedOk accepts; a double holds no magnitude of
\* 10^309 or more and none below 10^-324
unsignedValue(s, negative) ==
    LET mantissa == SubSeq(s, 1, mantissaEnd(s))
        whole == SubSeq(mantissa, 1, indexOf(mantissa, ".") - 1)
        fraction == SubSeq(mantissa, indexOf(mantissa, ".") + 1, Len(mantissa))
        digits == stripZeros(whole \o fraction)
        exponent == exponentValue(SubSeq(s, mantissaEnd(s) + 1, Len(s))) - Len(fraction)
    IN  IF digits = <<>> THEN Decimal(negative, <<>>, 0)
        ELSE IF Len(digits) + exponent > 309 THEN Infinite(negative)
        ELSE IF Len(digits) + exponent <= 0 - 324 THEN Decimal(negative, <<>>, 0)
        ELSE Decimal(negative, digits, exponent)

\* StringToNumber of a string without white space around it
literalValue(s) ==
    LET negative == s # <<>> /\ s[1] = "-"
        unsigned == IF s # <<>> /\ isSign(s[1]) THEN Tail(s) ELSE s
    IN  IF s = <<>> THEN Decimal(FALSE, <<>>, 0)
        ELSE IF unsigned = sInfinity THEN Infinite(negative)
        ELSE IF unsigned # <<>> /\ unsignedOk(unsigned) THEN unsignedValue(unsigned, negative)
        ELSE NaN

\* Number(value) for a string of digits, signs, points, letters and white space
\* (literals with the prefixes 0x, 0o and 0b are not modelled: no input has one)
Number(value) == literalValue(trim(value))

\* Number.isFinite(seconds) && seconds > 0
isPositive(n) == n.t = "dec" /\ ~n.negative /\ n.digits # <<>>

RECURSIVE power10(_)
power10(k) == IF k = 0 THEN 1 ELSE 10 * power10(k - 1)

\* Math.round(seconds * 1000) for a positive number below 10^6; a half is rounded up
roundMillis(n) ==
    LET shift == n.exponent + 3
    IN  IF shift >= 0 THEN digitsValue(n.digits) * power10(shift)
        ELSE IF Len(n.digits) < 0 - shift THEN 0
        ELSE LET unit == power10(0 - shift)
                 whole == digitsValue(n.digits) \div unit
                 rest == digitsValue(n.digits) % unit
             IN  IF 2 * rest >= unit THEN whole + 1 ELSE whole

\* a refresh input that takes every positive number as it is
periodOf_unclamped(seconds, current) ==
    IF isPositive(seconds) THEN roundMillis(seconds) ELSE current

\* the period the onChange handler sets, current being pollMs
periodOf(seconds, current) ==
    IF isPositive(seconds) THEN maxOf(MinPollMs, roundMillis(seconds)) ELSE current

settingsRest == <<dg, dispatcherVars, endpointVars, viewVars, logVars, createVars, otherVars>>

\* the onChange handler of the Refresh input, and the render that follows: the polling
\* effect depends on pollMs and runs again when the period is another one
SetPollInput(value) ==
    /\ mounted
    /\ pollInput' = value
    /\ pollMs' = periodOf(Number(value), pollMs)
    /\ IF pollMs' # pollMs
       THEN /\ pollingEffect(isVisible)
            /\ UNCHANGED <<mounted, isVisible, loading, lastDigestRef, data, tasks, taskCacheRef,
                           nextRef, lastSettle>>
       ELSE UNCHANGED pollVars
    /\ UNCHANGED settingsRest

\* what is typed into the Refresh input
TypedPeriods ==
    {<<>>, <<"0">>, <<"-", "1">>, <<"a">>, <<"1", "x">>, <<"0", ".", "0", "0", "0", "1">>,
     <<"0", ".", "1">>, <<".", "2", "5">>, <<"0", ".", "2", "4", "9", "4">>, <<"0", ".", "2", "5", "0", "6">>,
     <<"1">>, <<" ", "2", ".", " ">>, <<"+", "3", "e", "0">>, <<"1", "2", "e", "-", "1">>, <<"1", "e", "4", "0", "0">>,
     <<"1", "e", "-", "4", "0", "0">>, <<"1", "e", "-", "9">>, sInfinity, <<"-", "0", ".", "5">>, <<"1", ".", "2", ".", "3">>,
     <<"1", "e">>, <<".">>, <<"0", "0", "5">>, <<"1", "E", "2">>}

SettingsNext ==
    \/ Mount
    \/ \E value \in TypedPeriods : SetPollInput(value)

SpecSettings == Init /\ [][SettingsNext]_vars

---------------------------------------------------------------------------
(* Claims about the refresh period                                         *)

\* C31: the period of the poll timer is never below 250 ms, whatever is typed into
\* the refresh input, and an input that is no number, is not finite or is not above
\* zero leaves the period as it was.
C31_PeriodAtLeastMinimum ==
    /\ [](pollMs >= 250)
    /\ [][~isPositive(Number(pollInput')) => pollMs' = pollMs]_vars

\* a period of a tenth of a millisecond was typed and the period is 250 ms, after a
\* longer one
C31_Witness ==
    /\ pollInput = <<"0", ".", "0", "0", "0", "1">>
    /\ pollMs = 250

\* an input that is no number was typed while the period was two seconds
C31_WitnessInvalid ==
    /\ pollInput = <<"1", "x">>
    /\ pollMs = 2000

---------------------------------------------------------------------------
(* Task creation: addTask of the page, and POST /api/task                  *)

\* the POST /api/task requests the model lets clients send
MaxCreates == 2

sCommandRequired ==
    <<"C", "o", "m", "m", "a", "n", "d", " ", "i", "s", " ", "r", "e", "q", "u", "i", "r", "e", "d", ".">>
sFailedToAdd ==
    <<"F", "a", "i", "l", "e", "d", " ", "t", "o", " ", "a", "d", "d", " ", "t", "a", "s", "k", ".">>
sMissingCommand == <<"M", "i", "s", "s", "i", "n", "g", " ", "c", "o", "m", "m", "a", "n", "d">>

\* the body addTask posts, the other inputs of the form being as constructed: group
\* "default", no priority, no label, not stashed
CreateBody(command, group, priority, label, stashed, start_immediately) ==
    [t |-> "rec", command |-> command, group |-> group, priority |-> priority, label |-> label,
     stashed |-> stashed, start_immediately |-> start_immediately]

formBody(command) ==
    CreateBody(JStr(trim(command)), JStr(sDefault), Absent, Absent, JBool(FALSE), JBool(TRUE))

\* a request as the handler has it: who sent it, its body, how far the handler is
\* ("sent", "forwarded" or "answered"), what the backend answered, the reply of the
\* handler, and whether addTask has read it
Create(from, body) ==
    [from |-> from, body |-> body, stage |-> "sent", backend |-> Absent, reply |-> Absent, read |-> FALSE]

\* NextResponse.json(json, { status })
CreateReply(status, json) == [status |-> status, json |-> json]

\* the JSON of an answer: { ok, error }
Outcome(ok, error) == [t |-> "rec", ok |-> ok, error |-> error]

\* NextResponse.json({ ok: false, error }, { status })
CreateFailure(status, error) == CreateReply(status, Outcome(JBool(FALSE), JStr(error)))

\* !addCommand.trim()
isBlank(command) == trim(command) = <<>>

\* a handler that takes every body
commandMissing_never(body) == FALSE

\* !body?.command || typeof body.command !== "string"
commandMissing(body) == ~truthy(field(body, "command")) \/ ~isString(field(body, "command"))

createRest == <<pollVars, dg, dispatcherVars, endpointVars, viewVars, logVars, settingsVars, otherVars>>

\* the Command input of the add-task form
SetAddCommand(value) ==
    /\ addCommand' = value
    /\ UNCHANGED <<addError, creates, createForwarded>>
    /\ UNCHANGED createRest

\* addTask up to its await of fetch
AddTask ==
    /\ IF isBlank(addCommand)
       THEN /\ addError' = JStr(sCommandRequired)
            /\ UNCHANGED creates
       ELSE /\ Len(creates) < MaxCreates
            /\ addError' = Null
            /\ creates' = Append(creates, Create("form", formBody(addCommand)))
    /\ UNCHANGED <<addCommand, createForwarded>>
    /\ UNCHANGED createRest

\* another client posts a body to /api/task
DirectCreate(body) ==
    /\ Len(creates) < MaxCreates
    /\ creates' = Append(creates, Create("other", body))
    /\ UNCHANGED <<addCommand, addError, createForwarded>>
    /\ UNCHANGED createRest

\* POST up to its await of fetch: request.json() throws, the handler answers that
\* the command is missing, or it sends the body to the backend
CreateReceive(k) ==
    /\ k \in 1..Len(creates)
    /\ creates[k].stage = "sent"
    /\ IF creates[k].body = Malformed
       THEN /\ creates' = [creates EXCEPT ![k].stage = "answered", ![k].reply = CreateFailure(500, sThrown)]
            /\ UNCHANGED createForwarded
       ELSE IF commandMissing(creates[k].body)
       THEN /\ creates' = [creates EXCEPT ![k].stage = "answered",
                                          ![k].reply = CreateFailure(400, sMissingCommand)]
            /\ UNCHANGED createForwarded
       ELSE /\ creates' = [creates EXCEPT ![k].stage = "forwarded"]
            /\ createForwarded' = Append(createForwarded, creates[k].body)
    /\ UNCHANGED <<addCommand, addError>>
    /\ UNCHANGED createRest

\* what the backend answers: its status and its JSON, or nothing that can be read
\* (fetch rejects, or the answer is no JSON)
BackendReplies ==
    {CreateReply(200, Outcome(JBool(TRUE), Absent)), CreateReply(400, Outcome(JBool(FALSE), JStr(sError))),
     CreateReply(200, Null), Malformed}

\* the backend settles and POST runs to its end
CreateAnswer(k, o) ==
    /\ k \in 1..Len(creates)
    /\ creates[k].stage = "forwarded"
    /\ creates' = [creates EXCEPT ![k].stage = "answered", ![k].backend = o,
                                  ![k].reply = IF o = Malformed THEN CreateFailure(500, sThrown) ELSE o]
    /\ UNCHANGED <<addCommand, addError, createForwarded>>
    /\ UNCHANGED createRest

\* addTask from its await of fetch to its end
AddTaskSettle(k) ==
    /\ k \in 1..Len(creates)
    /\ creates[k].from = "form"
    /\ creates[k].stage = "answered"
    /\ ~creates[k].read
    /\ creates' = [creates EXCEPT ![k].read = TRUE]
    /\ UNCHANGED createForwarded
    /\ IF ~truthy(field(creates[k].reply.json, "ok"))
       THEN /\ addError' = orElse(field(creates[k].reply.json, "error"), JStr(sFailedToAdd))
            /\ UNCHANGED addCommand
            /\ UNCHANGED pollVars
       ELSE /\ addCommand' = <<>>
            /\ UNCHANGED addError
            /\ load
            /\ lastCaller' = "refresh"
            /\ UNCHANGED <<mounted, isVisible, loading, lastDigestRef, data, tasks, taskCacheRef,
                           nextRef, lastSettle, timer>>
    /\ UNCHANGED <<dg, dispatcherVars, endpointVars, viewVars, logVars, settingsVars, otherVars>>

\* what is typed into the Command input
TypedCommands == {<<>>, <<" ", "\t">>, <<" ", "l", "s", " ">>}

\* the bodies other clients post
CreateBodies ==
    {Malformed, Null, JStr(<<"l", "s">>), [t |-> "rec"]}
    \cup {CreateBody(command, JStr(sDefault), Absent, Absent, JBool(FALSE), JBool(TRUE)) :
            command \in {Null, JStr(<<>>), JNum(5), JStr(<<" ">>)}}

CreateNext ==
    \/ \E value \in TypedCommands : SetAddCommand(value)
    \/ AddTask
    \/ \E body \in CreateBodies : DirectCreate(body)
    \/ \E k \in 1..MaxCreates : CreateReceive(k)
    \/ \E k \in 1..MaxCreates, o \in BackendReplies : CreateAnswer(k, o)
    \/ \E k \in 1..MaxCreates : AddTaskSettle(k)

SpecCreate == Init /\ [][CreateNext]_vars

---------------------------------------------------------------------------
(* Claims about task creation                                              *)

\* a body with a command that is a string and not empty
hasCommand(body) ==
    /\ body # Malformed
    /\ field(body, "command").t = "str"
    /\ field(body, "command").s # <<>>

\* the handler has answered ok=false without asking the backend
rejected(create) ==
    /\ create.stage = "answered"
    /\ create.backend = Absent
    /\ create.reply.json.ok = JBool(FALSE)

\* the handler has asked the backend, and answers what the backend answered (an
\* answer of the backend that cannot be read is answered with ok=false)
passedOn(create) ==
    /\ create.stage \in {"forwarded", "answered"}
    /\ create.stage = "answered" =>
          /\ create.backend # Absent
          /\ IF create.backend = Malformed
             THEN create.reply.json.ok = JBool(FALSE) /\ create.reply.status = 500
             ELSE create.reply = create.backend

\* the bodies of the requests that the handler has passed on
bodiesPassedOn == {creates[k].body : k \in {i \in 1..Len(creates) : creates[i].stage # "sent" /\ hasCommand(creates[i].body)}}

\* C32: addTask with a blank command sets the error and sends no request, so every
\* request of the form carries a command that is not blank; the create handler
\* answers a body without a command, or with one that is empty or no string, with
\* ok=false and sends nothing to the backend; and it sends a body with a command to
\* the backend and answers what the backend answered.
C32_CreateIsValidated ==
    /\ [][(AddTask /\ isBlank(addCommand))
            => (addError' = JStr(sCommandRequired) /\ creates' = creates)]_vars
    /\ [][(addError' = JStr(sCommandRequired) /\ addError # addError')
            => (isBlank(addCommand) /\ creates' = creates)]_vars
    /\ [][(Len(creates') > Len(creates) /\ creates'[Len(creates')].from = "form")
            => (~isBlank(addCommand) /\ creates'[Len(creates')].body.command = JStr(trim(addCommand)))]_vars
    /\ [](\A k \in 1..Len(creates) :
             creates[k].stage # "sent" =>
                IF hasCommand(creates[k].body) THEN passedOn(creates[k]) ELSE rejected(creates[k]))
    /\ []({createForwarded[i] : i \in 1..Len(createForwarded)} = bodiesPassedOn)
    /\ [](Len(createForwarded)
            = Cardinality({k \in 1..Len(creates) : creates[k].stage # "sent" /\ hasCommand(creates[k].body)}))

\* a body whose command is the number 5 was answered with ok=false, the command ls of
\* the form was passed on and the answer of the backend returned, and addTask was then
\* called with a blank command
C32_Witness ==
    /\ Len(creates) = 2
    /\ creates[1].from = "other"
    /\ creates[1].body # Malformed
    /\ field(creates[1].body, "command") = JNum(5)
    /\ rejected(creates[1])
    /\ creates[2].from = "form"
    /\ creates[2].stage = "answered"
    /\ creates[2].reply = CreateReply(200, Outcome(JBool(TRUE), Absent))
    /\ creates[2].read
    /\ createForwarded = <<formBody(<<"l", "s">>)>>
    /\ addCommand = <<>>
    /\ addError = JStr(sCommandRequired)

---------------------------------------------------------------------------
(* Polling when every request settles and the interval timer keeps firing  *)

\* one response for each way load() can take from its await to its end
SettlingOutcomes ==
    {[kind |-> "throw", json |-> Absent],
     [kind |-> "json", json |-> Response(JBool(FALSE), Absent, Absent, Absent, Absent, JStr(sError))]}
    \cup {[kind |-> "json", json |-> Response(JBool(TRUE), st, StatsOf(0), dig, c, Absent)] :
            st \in {StatusOf(JObj(<<KV(<<"0">>, PollTaskRunning)>>), PollGroups)},
            dig \in {Absent, JStr(<<"d", "1">>)}, c \in PollCached}

SettlingNext ==
    \/ Mount
    \/ TimerTick
    \/ RetryClick
    \/ RefreshAfterChange
    \/ VisibilityChange
    \/ \E o \in SettlingOutcomes : Settle(o)

SpecSettling ==
    /\ Init
    /\ [][SettlingNext]_vars
    /\ WF_vars(\E o \in SettlingOutcomes : Settle(o))
    /\ WF_vars(TimerTick)

\* the ways in which a request has settled
settledBy ==
    CASE lastSettle.kind = "throw" -> "thrown"
      [] lastSettle.kind = "none" -> "none"
      [] ~truthy(field(lastSettle.json, "ok")) -> "not ok"
      [] lastSettle.propagated -> "propagated"
      [] lastSettle.computed -> "equal digest computed"
      [] truthy(field(lastSettle.json, "digest")) -> "equal digest"
      [] OTHER -> "cached"

\* C33: the in-flight guard is set exactly while a request is outstanding: every
\* request that settles (propagated, discarded for its equal digest or its cached
\* flag, not ok, or thrown) resets it; so, when every request settles and the timer
\* keeps firing, a held guard is released, and a client that is visible sends a new
\* request (as long as the model lets it send one) or is hidden first.
C33_GuardReleasedWhenSettled ==
    /\ [](loadInFlightRef <=> outstanding > 0)
    /\ [][settles => ~loadInFlightRef']_vars
    /\ (loadInFlightRef ~> ~loadInFlightRef)
    /\ \A n \in 0..(MaxPolls - 1) :
          (mounted /\ isVisible /\ issued = n) ~> (issued > n \/ ~isVisible)

\* a response was discarded for its cached flag, and the guard is free again
C33_Witness ==
    /\ settledBy = "cached"
    /\ ~loadInFlightRef
    /\ outstanding = 0
    /\ issued >= 2

C33_WitnessThrown == settledBy = "thrown" /\ ~loadInFlightRef /\ outstanding = 0

C33_WitnessNotOk == settledBy = "not ok" /\ ~loadInFlightRef /\ outstanding = 0

C33_WitnessEqualDigest ==
    settledBy \in {"equal digest", "equal digest computed"} /\ ~loadInFlightRef /\ outstanding = 0

\* a third request was sent by the timer after two had settled
C33_WitnessNextPoll ==
    /\ issued = 3
    /\ lastCaller = "timer"
    /\ lastCall = "issued"
    /\ loadInFlightRef

---------------------------------------------------------------------------
(* Claims about the interval timer                                         *)

\* a visibilitychange, and the render that follows it
visibilityChanges == mounted /\ isVisible' # isVisible

---------------------------------------------------------------------------
(* Reconciliation across failed polls: responses are propagated one after  *)
(* the other, some of them failures.                                       *)

\* the responses the outage model propagates
MaxOutageSnapshots == 5

OutageTaskMaps ==
    {JObj(<<KV(<<"1">>, PollTaskRunning)>>),
     JObj(<<KV(<<"1">>, PollTaskRunning), KV(<<"2">>, PollTaskDone)>>),
     JObj(<<KV(<<"1">>, PollTaskDone), KV(<<"2">>, PollTaskDone)>>)}

\* a thrown error, a response that is not ok, and snapshots of one and of two tasks
OutageResponses ==
    {CaughtData, Response(JBool(FALSE), Absent, Absent, Absent, Absent, Absent)}
    \cup {Response(JBool(TRUE), StatusOf(tm, PollGroups), Absent, Absent, Absent, Absent) : tm \in OutageTaskMaps}

OutageNext == \E json \in OutageResponses : TableSnapshot(json, MaxOutageSnapshots)

SpecOutage == Init /\ [][OutageNext]_vars

---------------------------------------------------------------------------
(* Claims about reconciliation across failed polls                         *)

\* the data shown are those of a failed poll
failedShown == ~truthy(field(data.json, "ok")) /\ field(data.json, "status") = Absent

\* C35: while the data of a failed poll are shown there are no rows and the cache is
\* empty; so every row of the first snapshot propagated after a failed poll is a newly
\* built object, whatever the snapshots before the failure held.
C35_FailureEmptiesCache ==
    /\ [](failedShown => (tasks = <<>> /\ taskCacheRef = EmptyCache))
    /\ [][(failedShown /\ ~failedShown')
            => /\ \A i \in 1..Len(tasks') : tasks'[i].ref >= nextRef
               /\ nextRef' = nextRef + Len(tasks')
               /\ Len(tasks') = Cardinality(taskIds(data'))]_vars

\* the snapshot of tasks 1 and 2 was propagated, then a failure, then the same
\* snapshot: its rows are the third and the fourth object built
C35_Witness ==
    /\ issued = 3
    /\ taskIds(data) = {<<"1">>, <<"2">>}
    /\ Len(tasks) = 2
    /\ tasks[1].ref = 3
    /\ tasks[2].ref = 4
    /\ nextRef = 5
    /\ tasks[1].status = sRunning

\* the data of a failed poll are shown after a snapshot of two tasks
C35_WitnessFailed ==
    /\ failedShown
    /\ nextRef = 3
    /\ tasks = <<>>

---------------------------------------------------------------------------
(* Claims about overlapping dispatches and about batches                   *)

\* C36: the key of every call that a batch has in flight is in the pending set, also
\* when a row action or another batch has dispatched the same task and action and
\* that call has settled first.
C36_BatchCallStaysPending ==
    \A c \in calls : c.batch # 0 => pendingKey(c.id, c.action) \in pendingActions

\* the call that settles in a step, lastOutcome' naming it
settledCall == CHOOSE c \in calls : c.n = lastOutcome'.n

callSettles == lastOutcome' # lastOutcome

\* the batch loop that awaits call c, if there is one
loopOf(c) == {loop \in batches : loop.b = c.batch}

\* C37: a batch takes the ids that are selected when it starts, in the order of their
\* selection: its first call is for the first of them and the others wait in order; a
\* later change of the selection changes no batch; when a call of the batch settles
\* without an error the next call is for the next waiting id, and there is one call
\* per id; when a call is rejected its key leaves the pending set, the batch ends and
\* no call is issued for the ids that wait.
C37_BatchTakesSelectionStopsOnThrow ==
    /\ [][batches' \ batches # {} /\ ~callSettles
            => \E loop \in batches' : \E c \in calls' :
                  /\ batches' = batches \cup {loop}
                  /\ calls' = calls \cup {c}
                  /\ c.batch = loop.b /\ c.n = loop.b /\ c.n = nextCall
                  /\ c.id = Head(selectedIds)
                  /\ loop.rest = Tail(selectedIds)
                  /\ loop.action = c.action
                  /\ nextCall' = nextCall + Len(selectedIds)]_vars
    /\ [][selectedIds' # selectedIds => (batches' = batches /\ calls' = calls)]_vars
    /\ [][(callSettles /\ loopOf(settledCall) # {} /\ lastOutcome'.kind # "throw")
            => \E loop \in loopOf(settledCall) :
                  IF loop.rest = <<>>
                  THEN calls' = calls \ {settledCall} /\ batches' = batches \ {loop}
                  ELSE /\ calls' = (calls \ {settledCall})
                                     \cup {Call(settledCall.n + 1, Head(loop.rest), loop.action, loop.b)}
                       /\ batches' = (batches \ {loop})
                                       \cup {[loop EXCEPT !.rest = Tail(loop.rest), !.n = loop.n + 1]}]_vars
    /\ [][(callSettles /\ loopOf(settledCall) # {} /\ lastOutcome'.kind = "throw")
            => /\ calls' = calls \ {settledCall}
               /\ batches' = batches \ loopOf(settledCall)
               /\ pendingKey(settledCall.id, settledCall.action) \notin pendingActions']_vars

\* tasks 8 and 9 were selected in this order and a batch started; its call for task 8
\* was rejected: no call is in flight, no key is pending and no call was made for 9
C37_Witness ==
    /\ selectedIds = <<<<"8">>, <<"9">>>>
    /\ lastOutcome.kind = "throw"
    /\ lastOutcome.id = <<"8">>
    /\ lastOutcome.n = 1
    /\ nextCall = 3
    /\ calls = {}
    /\ batches = {}
    /\ pendingActions = {}

\* tasks 9 and 8 were selected in this order: the call for 9 has settled and the call
\* for 8 is in flight
C37_WitnessOrder ==
    /\ selectedIds = <<<<"9">>, <<"8">>>>
    /\ lastOutcome.kind = "refused"
    /\ lastOutcome.id = <<"9">>
    /\ \E c \in calls : c.id = <<"8">> /\ c.n = 2 /\ c.batch = 1

---------------------------------------------------------------------------
(* The log requests of the dashboard: loadLogs, the effect that asks for   *)
(* the log 200 ms after the task id has changed, and the Logs button of a   *)
(* row.  A request is sent, settles at some later time, and its response is *)
(* stored by setLogData whatever has happened in between.                  *)

MaxLogRequests == 3

\* the JSON of /api/logs/{id} that answers request n: log is the text of the log as a
\* string value, or Absent when the response carries no log ({ ok: false, error })
LogReply(n, id, log) == [n |-> n, id |-> id, log |-> log]

\* the logText memo over logData
logTextOf(d) == IF d = Null THEN <<>> ELSE IF d.log = Absent THEN <<>> ELSE d.log.s

\* setLogData(d) and the render that follows: parsedLogLines and logWindow depend on
\* logText and useLocalTime, not on logTaskId, and are computed again when logText is
\* another text
setLogData(d) ==
    /\ logData' = d
    /\ logText' = logTextOf(d)
    /\ IF logText' # logText
       THEN \E parsed \in {parsedLogLinesOf(logTaskId', logText', useLocalTime)} : renderLog(parsed)
       ELSE UNCHANGED <<parsedLogLines, logWindow>>

\* fetch rejects, or res.json() does
Rejected == [t |-> "rejected"]

\* loadLogs up to its await of fetch
sendLogRequest(id) ==
    /\ Len(logRequests) < MaxLogRequests
    /\ logRequests' = Append(logRequests, [id |-> id, state |-> "sent"])

logFetchRest == <<pollVars, dg, dispatcherVars, endpointVars, viewVars, settingsVars, createVars, viewerVars>>

\* the Task id input of the log section: setLogTaskId(value), and the log effect, which
\* clears the timer of the run before it and either clears logData or sets the timer.
\* No row has the id 0, so the effect that selects task 0 does nothing.
SelectLog(id) ==
    /\ id # logTaskId
    /\ logTaskId' = id
    /\ IF id = <<>>
       THEN setLogData(Null) /\ logTimer' = FALSE
       ELSE logTimer' = TRUE /\ UNCHANGED <<logData, logText, parsedLogLines, logWindow>>
    /\ UNCHANGED <<logRequests, useLocalTime>>
    /\ UNCHANGED logFetchRest

\* handleOpenLog(id), from the Logs button of a row: loadLogs(id) is called at once,
\* and the effect runs again when logTaskId is another id
OpenLog(id) ==
    /\ id \in rowIds(tasks)
    /\ logTaskId' = id
    /\ sendLogRequest(id)
    /\ logTimer' = IF id # logTaskId THEN TRUE ELSE logTimer
    /\ UNCHANGED <<logData, logText, parsedLogLines, logWindow, useLocalTime>>
    /\ UNCHANGED logFetchRest

\* the timer of the effect fires: loadLogs() for the id of its render
LogTimerFires ==
    /\ logTimer
    /\ logTimer' = FALSE
    /\ sendLogRequest(logTaskId)
    /\ UNCHANGED <<logTaskId, logData, logText, parsedLogLines, logWindow, useLocalTime>>
    /\ UNCHANGED logFetchRest

\* loadLogs from its await of fetch to its end: a rejected fetch leaves the page as it
\* is, a response is stored
LogSettle(n, o) ==
    /\ n \in 1..Len(logRequests)
    /\ logRequests[n].state = "sent"
    /\ UNCHANGED <<logTaskId, logTimer, useLocalTime>>
    /\ IF o = Rejected
       THEN /\ logRequests' = [logRequests EXCEPT ![n].state = "thrown"]
            /\ UNCHANGED <<logData, logText, parsedLogLines, logWindow>>
       ELSE /\ logRequests' = [logRequests EXCEPT ![n].state = "answered"]
            /\ setLogData(LogReply(n, logRequests[n].id, o))
    /\ UNCHANGED logFetchRest

\* what a request is answered with: a log, a response without log, or nothing
LogOutcomes == {JStr(<<"x">>), Absent, Rejected}

LogFetchNext ==
    \/ ShowTasks
    \/ \E id \in {<<>>, <<"8">>, <<"9">>} : SelectLog(id)
    \/ \E id \in {<<"8">>, <<"9">>} : OpenLog(id)
    \/ LogTimerFires
    \/ \E n \in 1..MaxLogRequests, o \in LogOutcomes : LogSettle(n, o)

SpecLogFetch == Init /\ [][LogFetchNext]_vars

\* the requests that were sent for task id
requestsFor(id) == {n \in 1..Len(logRequests) : logRequests[n].id = id}

\* the last request that was sent for task id
latestFor(id) == CHOOSE n \in requestsFor(id) : \A m \in requestsFor(id) : m <= n

\* C38: when no log request is outstanding and no timer is pending, a task is selected
\* and the last request sent for it has been answered, then the response shown is the
\* answer to that request.
C38_LatestResponseShown ==
    (/\ \A n \in 1..Len(logRequests) : logRequests[n].state # "sent"
     /\ ~logTimer
     /\ logTaskId # <<>>
     /\ requestsFor(logTaskId) # {}
     /\ logRequests[latestFor(logTaskId)].state = "answered")
      => (logData # Null /\ logData.n = latestFor(logTaskId))

---------------------------------------------------------------------------
(* The standalone log viewer page (LogsPage).  Its pattern is written with  *)
(* two backslashes before every class: in a regular expression literal \\d  *)
(* is a backslash followed by the letter d, \\. a backslash followed by any *)
(* character and \\s* a backslash followed by letters s.                    *)

wordAt(s, i, word) == i + Len(word) - 1 <= Len(s) /\ SubSeq(s, i, i + Len(word) - 1) = word

\* \\d{2}: a backslash and two letters d
sEscD2 == <<"\\", "d", "d">>

\* \\d{4}-\\d{2}-\\d{2}[ T]\\d{2}:\\d{2}:\\d{2} at the start of s
escapedShape(s) ==
    /\ wordAt(s, 1, <<"\\", "d", "d", "d", "d", "-">> \o sEscD2 \o <<"-">> \o sEscD2)
    /\ charAt(s, 14, {" ", "T"})
    /\ wordAt(s, 15, sEscD2 \o <<":">> \o sEscD2 \o <<":">> \o sEscD2)

RECURSIVE letterRun(_, _, _)
\* how many letters c follow one another from position i
letterRun(s, i, c) == IF i <= Len(s) /\ s[i] = c THEN 1 + letterRun(s, i + 1, c) ELSE 0

\* the positions where (?:\\.\\d+)? can end, in the order the matcher tries them: with
\* the letters d from the longest run to one letter, and then without the fraction
escapedFractionEnds(s) ==
    IF /\ charAt(s, 26, {"\\"}) /\ 27 <= Len(s) /\ s[27] # "\r" /\ charAt(s, 28, {"\\"})
       /\ letterRun(s, 29, "d") > 0
    THEN [k \in 1..letterRun(s, 29, "d") |-> 29 + letterRun(s, 29, "d") - k] \o <<25>>
    ELSE <<25>>

\* the positions where (?:Z|[+-]\\d{2}:?\\d{2})? can end after position e, in the
\* order the matcher tries them
escapedZoneEnds(s, e) ==
    (IF charAt(s, e + 1, {"Z"}) THEN <<e + 1>> ELSE <<>>)
     \o (IF charAt(s, e + 1, {"+", "-"}) /\ wordAt(s, e + 2, sEscD2)
         THEN (IF charAt(s, e + 5, {":"}) /\ wordAt(s, e + 6, sEscD2) THEN <<e + 8>> ELSE <<>>)
               \o (IF wordAt(s, e + 5, sEscD2) THEN <<e + 7>> ELSE <<>>)
         ELSE <<>>)
     \o <<e>>

RECURSIVE escapedGroupEnds(_, _)
\* the positions where the first group can end, for the fraction ends `ends`
escapedGroupEnds(s, ends) ==
    IF ends = <<>> THEN <<>> ELSE escapedZoneEnds(s, Head(ends)) \o escapedGroupEnds(s, Tail(ends))

\* the ends of the first group after which the backslash of \\s* stands
escapedMatches(s) ==
    SelectSeq(escapedGroupEnds(s, escapedFractionEnds(s)), LAMBDA e : charAt(s, e + 1, {"\\"}))

\* the last position of the first group, 0 when the pattern does not match
escapedStampEnd(s) == IF escapedMatches(s) = <<>> THEN 0 ELSE Head(escapedMatches(s))

\* line.match(...) of LogsPage: the dot matches no line terminator
matchesEscaped(line) ==
    /\ escapedShape(line)
    /\ escapedStampEnd(line) > 0
    /\ \A i \in 1..Len(line) : line[i] # "\r"

\* the second group (.*) when the first group ends at e: what follows the backslash
\* and the letters s
escapedRest(s, e) == SubSeq(s, e + 2 + letterRun(s, e + 2, "s"), Len(s))

\* Date.parse of a string that has not the format of the language: the result is left
\* to the implementation, NaN or some instant
LegacyInstants == {Absent, instant(0, 0)}

\* the callback of logText.split(/\r?\n/).map of LogsPage, Date.parse giving parsed;
\* formatTimestamp(ts) is new Date(parsed).toLocaleString() when parsed is no NaN
viewerParseLine(line, local, parsed) ==
    IF ~matchesEscaped(line) THEN LogLine(Null, line, FALSE)
    ELSE stampedLine(SubSeq(line, 1, escapedStampEnd(line)),
                     escapedRest(line, escapedStampEnd(line)), parsed, local)

\* the parsedLogLines memo of LogsPage
viewerLinesOf(taskId, text, local, parsed) ==
    IF taskId = <<>> THEN <<>>
    ELSE CHOOSE out \in {[i \in 1..Len(lines) |-> viewerParseLine(lines[i], local, parsed)] :
                             lines \in {splitLines(text)}} : TRUE

viewerRest == <<pollVars, dg, dispatcherVars, endpointVars, viewVars, logVars, settingsVars,
                createVars, logFetchVars>>

\* LogsPage has asked for the log of task id and the response text arrives
ViewerLoaded(id, text) ==
    /\ viewerTaskId' = id
    /\ viewerLogText' = text
    /\ \E parsed \in LegacyInstants :
          viewerLogLines' \in {viewerLinesOf(id, text, viewerLocalTime, parsed)}
    /\ UNCHANGED viewerLocalTime
    /\ UNCHANGED viewerRest

\* the Local time checkbox of LogsPage
ViewerToggleLocalTime ==
    /\ viewerLocalTime' = ~viewerLocalTime
    /\ \E parsed \in LegacyInstants :
          viewerLogLines' \in {viewerLinesOf(viewerTaskId, viewerLogText, ~viewerLocalTime, parsed)}
    /\ UNCHANGED <<viewerTaskId, viewerLogText>>
    /\ UNCHANGED viewerRest

sEscStamp == <<"\\", "d", "d", "d", "d", "-">> \o sEscD2 \o <<"-">> \o sEscD2 \o <<" ">>
               \o sEscD2 \o <<":">> \o sEscD2 \o <<":">> \o sEscD2

\* lines that hold the letters of the pattern of LogsPage
EscapedLines ==
    {sEscStamp \o <<"\\", " ", "x">>,
     sEscStamp \o <<"\\", ".", "\\", "d", "d", "Z", "\\", "s", "s", "t">>,
     sEscStamp \o <<" ", "x">>}

\* the logs that both pages are given: logs of one line, and a log of two lines
ViewerTexts ==
    LogLines \cup EscapedLines
     \cup {sStampGood \o <<" ", "a", "\r", "\n">> \o sStampBad \o <<"Z", " ", "n", "o">>}

ViewerNext ==
    \/ \E text \in ViewerTexts : LogLoaded(<<"1">>, text)
    \/ \E text \in ViewerTexts : ViewerLoaded(<<"1">>, text)
    \/ ToggleLocalTime
    \/ ViewerToggleLocalTime

SpecViewer == Init /\ [][ViewerNext]_vars

\* what the claim compares of an entry
entryOf(entry) == <<entry.timestamp # Null, entry.malformed, entry.rest>>

\* C39: when the dashboard and the log viewer page show the same log text of a task,
\* they have as many entries, and the entries of a line agree in whether they have a
\* timestamp, in whether they are flagged as malformed, and in the remaining text.
C39_ParsersAgree ==
    (logTaskId # <<>> /\ viewerTaskId # <<>> /\ logText = viewerLogText)
      => /\ Len(parsedLogLines) = Len(viewerLogLines)
         /\ \A i \in 1..Len(parsedLogLines) : entryOf(parsedLogLines[i]) = entryOf(viewerLogLines[i])
====
